---------------------------- MODULE Spec2Model ----------------------------
(***************************************************************************)
(* Model of the ruin-exploration core of the Infinity Empires bot:           *)
(* CityManager.count_available_marches, CityManager.explore_ruins_flow and   *)
(* the helpers they call (search_ruin_at_coordinate, input_coordinate,       *)
(* click_element, load_explored_ruins, save_explored_ruins), over the        *)
(* static coordinate table of CityManager._load_ruin_coordinates.            *)
(*                                                                           *)
(* The device bridge, the template matcher and the file system are the       *)
(* environment.  A device shell call either returns or raises; a detection   *)
(* either finds its template or not; both are chosen nondeterministically.   *)
(* The file explored_ruins.json is the variable disk; reading and writing    *)
(* it succeed (the handlers of save_explored_ruins and load_explored_ruins   *)
(* for failing file I/O are outside the model).                              *)
(*                                                                           *)
(* The module holds seven specifications over the same variables:            *)
(*   Spec      one caller of count_available_marches / explore_ruins_flow;   *)
(*   SpecBot   MinimalBot.connect_device, detect_ui_element, launch_game     *)
(*             and is_game_running;                                          *)
(*   SpecNav   the navigation methods of CityManager (reset_to_city,         *)
(*             go_to_*, click_element, run_periodic_tasks,                   *)
(*             search_ruin_at_coordinate) as a stack of frames;              *)
(*   SpecGui   the buttons of MinimalBotGUI and the threads they start;      *)
(*   SpecLoop  the worker of MinimalBot.basic_loop running the flow of       *)
(*             Spec, with start_bot and stop_bot;                            *)
(*   SpecLive  SpecLoop with a worker thread that keeps being scheduled;     *)
(*   SpecRace  two threads inside explore_ruins_flow at once.                *)
(***************************************************************************)
EXTENDS Integers, Sequences, FiniteSets, TLC

(***************************************************************************)
(* Bounds of the model.                                                      *)
(***************************************************************************)
\* number of levels of the table the flow walks
MaxLevels == 2
\* number of areas walked in each level
MaxAreas == 2
\* number of coordinates walked in each area
MaxCoords == 2

(***************************************************************************)
(* The static table of _load_ruin_coordinates, in source order.  A Python    *)
(* dict iterates in insertion order, so levels and areas are sequences.      *)
(***************************************************************************)
RuinCoordinates ==
  <<
    [level |-> "Level 1", areas |-> <<
      [area |-> "Area 1 (Founding of the Three Kingdoms)", coordinates |-> <<
        <<15,149>>, <<33,175>>, <<34,110>>, <<73,58>>, <<119,50>>, <<130,85>>, <<133,133>>, <<140,88>>,
        <<157,131>>, <<156,90>>, <<172,111>>, <<180,59>>, <<193,26>>, <<193,45>>, <<200,151>>, <<211,43>>,
        <<214,34>>, <<226,36>>, <<238,72>>, <<243,39>>, <<246,30>>, <<266,90>>, <<270,57>>, <<289,128>>,
        <<310,120>>, <<314,60>>, <<350,55>> >>],
      [area |-> "Area 2 (Discovering Relics)", coordinates |-> <<
        <<57,214>>, <<68,211>>, <<94,206>>, <<111,221>>, <<136,224>>, <<144,180>>, <<152,222>>, <<158,198>>,
        <<206,170>>, <<29,361>>, <<62,315>>, <<67,359>>, <<78,263>>, <<92,255>>, <<101,332>>, <<124,318>>,
        <<133,350>>, <<155,282>>, <<9,480>>, <<17,495>>, <<19,455>>, <<27,464>>, <<48,491>>, <<63,405>>,
        <<108,422>>, <<115,392>>, <<123,377>> >>],
      [area |-> "Area 3 (War in the Three Kingdoms)", coordinates |-> <<
        <<49,575>>, <<52,557>>, <<64,532>>, <<71,559>>, <<81,620>>, <<96,566>>, <<114,574>>, <<132,583>>,
        <<138,593>>, <<17,746>>, <<18,710>>, <<21,721>>, <<32,637>>, <<36,710>>, <<37,726>>, <<53,727>>,
        <<55,639>>, <<71,711>>, <<46,777>>, <<54,819>>, <<63,800>>, <<67,753>>, <<84,736>>, <<84,826>>,
        <<100,790>>, <<102,798>>, <<126,805>> >>],
      [area |-> "Area 4 (The Gnome Invasion)", coordinates |-> <<
        <<76,840>>, <<143,880>>, <<152,833>>, <<152,853>>, <<152,860>>, <<153,921>>, <<164,893>>, <<172,834>>,
        <<194,834>>, <<191,895>>, <<205,937>>, <<221,873>>, <<265,862>>, <<275,890>>, <<279,865>>, <<298,957>>,
        <<306,908>>, <<314,932>> >>],
      [area |-> "Area 5 (A New Summons)", coordinates |-> <<
        <<449,961>>, <<455,981>>, <<467,966>>, <<472,985>>, <<487,934>>, <<508,902>>, <<525,923>>, <<544,931>>,
        <<565,950>>, <<581,932>>, <<585,965>>, <<596,975>> >>],
      [area |-> "Area 6 (History of the Magic Academy)", coordinates |-> <<
        <<639,950>>, <<665,883>>, <<670,856>>, <<680,961>>, <<681,858>>, <<691,875>>, <<708,900>>, <<712,878>>,
        <<724,892>>, <<727,912>>, <<729,947>>, <<739,942>> >>],
      [area |-> "Area 7 (The Dragons and the Treasury)", coordinates |-> <<
        <<800,871>>, <<842,865>>, <<843,925>>, <<866,907>>, <<868,900>>, <<891,874>>, <<894,901>>, <<904,842>>,
        <<910,855>>, <<843,770>>, <<843,805>>, <<851,813>>, <<888,761>>, <<892,791>>, <<892,821>>, <<912,762>>,
        <<913,778>>, <<916,753>> >>],
      [area |-> "Area 8 (Sea Trade)", coordinates |-> <<
        <<960,922>>, <<972,905>>, <<976,925>>, <<977,870>>, <<996,869>>, <<1011,868>>, <<1012,910>>, <<1016,846>>,
        <<1021,884>>, <<1059,886>>, <<1091,879>>, <<1094,900>>, <<1095,891>>, <<1104,835>>, <<1115,907>>, <<1137,854>>,
        <<1149,844>>, <<1159,833>>, <<1032,936>>, <<1037,926>>, <<1062,948>>, <<1072,940>>, <<1077,932>>, <<1104,977>>,
        <<1113,924>>, <<1123,966>>, <<1133,948>> >>],
      [area |-> "Area 9 (The Call of the Three Kingdoms)", coordinates |-> <<
        <<972,791>>, <<990,821>>, <<1013,754>>, <<1022,823>>, <<1023,746>>, <<1033,850>>, <<1036,778>>, <<1036,817>>,
        <<1046,778>>, <<1103,782>>, <<1116,730>>, <<1138,782>>, <<1139,717>>, <<1143,775>>, <<1155,786>>, <<1164,781>>,
        <<1179,755>>, <<1180,765>> >>],
      [area |-> "Area 10 (The Doomsday Prophecy)", coordinates |-> <<
        <<1052,715>>, <<1063,636>>, <<1067,726>>, <<1073,697>>, <<1075,688>>, <<1119,670>>, <<1121,624>>, <<1139,629>>,
        <<1139,664>>, <<1012,574>>, <<1016,585>>, <<1020,608>>, <<1038,555>>, <<1039,593>>, <<1041,562>>, <<1058,575>>,
        <<1067,573>>, <<1096,599>> >>],
      [area |-> "Area 11 (Harold's Ice Wall)", coordinates |-> <<
        <<1073,438>>, <<1102,417>>, <<1103,475>>, <<1105,496>>, <<1116,449>>, <<1122,487>>, <<1134,535>>, <<1138,547>>,
        <<1144,415>>, <<1043,348>>, <<1053,343>>, <<1070,383>>, <<1072,346>>, <<1079,303>>, <<1102,377>>, <<1110,397>>,
        <<1152,402>>, <<1153,414>> >>],
      [area |-> "Area 12 (The Royal Alchemist Academy)", coordinates |-> <<
        <<1008,261>>, <<1031,239>>, <<1040,199>>, <<1041,220>>, <<1042,287>>, <<1052,206>>, <<1065,217>>, <<1075,238>>,
        <<1079,278>>, <<1055,197>>, <<1093,148>>, <<1101,244>>, <<1107,142>>, <<1118,216>>, <<1120,185>>, <<1129,151>>,
        <<1149,221>>, <<1156,168>> >>],
      [area |-> "Area 13 (Sovereign Tomb)", coordinates |-> <<
        <<943,228>>, <<944,175>>, <<961,149>>, <<968,174>>, <<984,147>>, <<1008,128>>, <<1020,199>>, <<1039,137>>,
        <<1053,136>>, <<1023,70>>, <<1024,43>>, <<1037,98>>, <<1045,76>>, <<1073,114>>, <<1112,98>>, <<1134,70>>,
        <<1152,68>>, <<1169,113>> >>],
      [area |-> "Area 14 (Hornheim's Disappearance)", coordinates |-> <<
        <<732,123>>, <<737,87>>, <<753,141>>, <<769,84>>, <<773,163>>, <<787,226>>, <<797,202>>, <<801,123>>,
        <<811,123>>, <<848,124>>, <<853,92>>, <<853,105>>, <<885,93>>, <<901,115>>, <<919,62>>, <<954,113>>,
        <<986,123>>, <<1007,101>> >>],
      [area |-> "Area 15 (The Empire Crumbles)", coordinates |-> <<
        <<361,82>>, <<375,141>>, <<378,56>>, <<389,108>>, <<394,140>>, <<400,182>>, <<426,68>>, <<449,93>>,
        <<451,131>>, <<468,72>>, <<487,87>>, <<497,63>>, <<501,99>>, <<505,65>>, <<514,144>>, <<517,113>>,
        <<526,172>>, <<554,107>>, <<568,160>>, <<579,142>>, <<595,73>>, <<601,96>>, <<608,74>>, <<629,93>>,
        <<647,182>>, <<673,115>>, <<710,87>> >>] >>],
    [level |-> "Level 2", areas |-> <<
      [area |-> "Area 16 (Sage Council)", coordinates |-> <<
        <<145,260>>, <<155,267>>, <<167,286>>, <<170,329>>, <<177,278>>, <<224,222>>, <<239,222>>, <<243,232>>,
        <<255,262>>, <<242,199>>, <<257,231>>, <<269,231>>, <<283,203>>, <<306,165>>, <<309,192>>, <<338,129>>,
        <<365,160>>, <<368,141>> >>],
      [area |-> "Area 17 (Enigma Lieu)", coordinates |-> <<
        <<140,392>>, <<144,459>>, <<151,353>>, <<154,367>>, <<164,447>>, <<165,405>>, <<180,425>>, <<184,378>>,
        <<190,412>>, <<211,369>>, <<214,430>>, <<235,353>> >>],
      [area |-> "Area 18 (Well of Time)", coordinates |-> <<
        <<151,468>>, <<155,483>>, <<192,558>>, <<193,520>>, <<208,442>>, <<210,542>>, <<229,537>>, <<233,509>>,
        <<246,549>>, <<264,557>>, <<280,514>>, <<300,536>> >>],
      [area |-> "Area 19 (The First Gnome Invasion)", coordinates |-> <<
        <<129,726>>, <<149,700>>, <<172,723>>, <<184,690>>, <<190,664>>, <<198,687>>, <<211,708>>, <<212,642>>,
        <<218,705>>, <<244,655>>, <<258,654>>, <<266,683>>, <<117,642>>, <<125,631>>, <<127,653>>, <<161,614>>,
        <<167,641>>, <<177,570>>, <<178,613>>, <<195,617>>, <<203,644>>, <<204,606>>, <<247,606>>, <<261,645>> >>],
      [area |-> "Area 20 (Above and Below)", coordinates |-> <<
        <<226,840>>, <<258,809>>, <<270,801>>, <<273,844>>, <<284,828>>, <<295,767>>, <<308,760>>, <<321,751>>,
        <<341,770>>, <<149,763>>, <<174,755>>, <<179,783>>, <<224,781>>, <<238,707>>, <<241,773>>, <<278,704>>,
        <<282,691>>, <<298,738>> >>],
      [area |-> "Area 21 (Summoning Ban)", coordinates |-> <<
        <<483,835>>, <<494,859>>, <<516,809>>, <<517,754>>, <<523,809>>, <<535,806>>, <<543,782>>, <<556,789>>,
        <<571,809>>, <<352,860>>, <<363,884>>, <<374,894>>, <<386,844>>, <<386,871>>, <<403,926>>, <<418,928>>,
        <<419,845>>, <<423,916>> >>],
      [area |-> "Area 22 (World Heart)", coordinates |-> <<
        <<642,846>>, <<646,858>>, <<657,841>>, <<663,765>>, <<673,766>>, <<686,835>>, <<690,853>>, <<698,740>>,
        <<726,847>>, <<553,893>>, <<557,868>>, <<572,854>>, <<574,894>>, <<590,899>>, <<591,892>>, <<596,938>>,
        <<604,900>>, <<609,911>> >>],
      [area |-> "Area 23 (Terrifying Rumors)", coordinates |-> <<
        <<835,665>>, <<836,692>>, <<840,681>>, <<856,674>>, <<856,684>>, <<875,694>>, <<880,728>>, <<889,684>>,
        <<890,668>>, <<717,801>>, <<718,750>>, <<738,804>>, <<740,812>>, <<772,776>>, <<784,778>>, <<788,816>>,
        <<814,815>>, <<820,807>> >>],
      [area |-> "Area 24 (Founding of the Empire)", coordinates |-> <<
        <<885,605>>, <<915,620>>, <<915,653>>, <<918,667>>, <<925,666>>, <<927,644>>, <<943,661>>, <<945,599>>,
        <<947,653>>, <<948,588>>, <<965,606>>, <<975,656>>, <<926,764>>, <<929,705>>, <<930,777>>, <<933,743>>,
        <<956,787>>, <<958,726>>, <<967,697>>, <<975,762>>, <<980,751>>, <<978,688>>, <<1006,667>>, <<1022,671>> >>],
      [area |-> "Area 25 (Five Great Kingdoms)", coordinates |-> <<
        <<899,367>>, <<933,323>>, <<936,399>>, <<955,385>>, <<958,475>>, <<959,416>>, <<974,394>>, <<1011,368>>,
        <<1016,347>>, <<977,447>>, <<989,435>>, <<1003,404>>, <<1016,481>>, <<1024,388>>, <<1036,470>>, <<1041,440>>,
        <<1047,410>>, <<1085,398>> >>],
      [area |-> "Area 26 (The Gnome's Birth and Exile)", coordinates |-> <<
        <<877,254>>, <<888,260>>, <<910,256>>, <<922,267>>, <<927,292>>, <<932,285>>, <<933,304>>, <<936,316>>,
        <<952,280>>, <<953,243>>, <<958,264>>, <<960,328>>, <<978,298>>, <<982,321>>, <<991,287>> >>],
      [area |-> "Area 27 (The War of Five Kingdoms)", coordinates |-> <<
        <<752,234>>, <<754,200>>, <<758,213>>, <<763,301>>, <<787,306>>, <<792,343>>, <<799,293>>, <<804,314>>,
        <<836,283>>, <<816,200>>, <<820,211>>, <<833,224>>, <<880,220>>, <<899,188>>, <<908,154>>, <<911,229>>,
        <<914,194>>, <<931,188>> >>],
      [area |-> "Area 28 (The Alchemists)", coordinates |-> <<
        <<367,186>>, <<414,209>>, <<420,267>>, <<426,191>>, <<428,247>>, <<453,204>>, <<467,249>>, <<493,222>>,
        <<501,228>>, <<518,253>>, <<538,241>>, <<539,251>>, <<546,188>>, <<554,217>>, <<558,266>>, <<572,233>>,
        <<600,192>>, <<624,199>>, <<646,226>>, <<669,224>>, <<695,183>>, <<696,192>>, <<697,158>>, <<706,152>>,
        <<706,216>>, <<722,214>>, <<734,172>> >>],
      [area |-> "Area 29 (Hornheim)", coordinates |-> <<
        <<337,282>>, <<341,210>>, <<358,224>>, <<358,235>>, <<360,246>>, <<362,196>>, <<364,276>>, <<369,251>>,
        <<383,307>>, <<386,234>>, <<406,283>>, <<415,291>> >>] >>],
    [level |-> "Level 3", areas |-> <<
      [area |-> "Area 30 (Stela of New World)", coordinates |-> <<
        <<268,379>>, <<285,252>>, <<289,361>>, <<299,330>>, <<301,263>>, <<309,257>>, <<310,275>>, <<315,315>>,
        <<356,332>>, <<260,397>>, <<276,411>>, <<287,419>>, <<295,453>>, <<314,454>>, <<326,423>>, <<335,383>>,
        <<338,402>>, <<397,420>> >>],
      [area |-> "Area 31 (Temple of Norheim)", coordinates |-> <<
        <<269,666>>, <<279,581>>, <<296,678>>, <<332,570>>, <<333,556>>, <<343,615>>, <<376,589>>, <<386,547>>,
        <<395,567>>, <<336,710>>, <<344,751>>, <<356,656>>, <<357,756>>, <<367,712>>, <<373,668>>, <<381,741>>,
        <<386,624>>, <<406,636>> >>],
      [area |-> "Area 32 (History of the Tribes)", coordinates |-> <<
        <<362,821>>, <<384,808>>, <<401,821>>, <<421,812>>, <<426,758>>, <<457,815>>, <<466,752>>, <<477,775>>,
        <<490,742>>, <<437,658>>, <<494,652>>, <<504,694>>, <<508,644>>, <<518,666>>, <<522,699>>, <<535,688>>,
        <<539,673>>, <<543,682>>, <<526,745>>, <<539,748>>, <<565,756>>, <<569,708>>, <<591,728>>, <<600,730>>,
        <<612,708>>, <<624,759>>, <<626,774>> >>],
      [area |-> "Area 33 (Forbidden Zone)", coordinates |-> <<
        <<739,677>>, <<740,707>>, <<747,748>>, <<774,643>>, <<775,740>>, <<777,692>>, <<790,690>>, <<800,657>>,
        <<812,688>>, <<801,621>>, <<808,650>>, <<809,664>>, <<818,593>>, <<825,648>>, <<830,615>>, <<837,622>>,
        <<837,632>>, <<878,604>> >>],
      [area |-> "Area 34 (Creation and the Guardians)", coordinates |-> <<
        <<925,497>>, <<932,554>>, <<935,500>>, <<942,571>>, <<950,534>>, <<960,493>>, <<984,510>>, <<989,547>>,
        <<991,554>>, <<998,538>>, <<1014,504>>, <<1039,507>> >>],
      [area |-> "Area 35 (The Energy Circle)", coordinates |-> <<
        <<801,548>>, <<806,558>>, <<859,515>>, <<868,523>>, <<868,533>>, <<893,564>>, <<897,511>>, <<903,492>>,
        <<907,483>>, <<804,390>>, <<822,399>>, <<842,400>>, <<853,413>>, <<861,363>>, <<862,329>>, <<876,356>>,
        <<886,375>>, <<900,331>> >>],
      [area |-> "Area 36 (The Destruction of Civilization)", coordinates |-> <<
        <<661,276>>, <<675,271>>, <<691,253>>, <<693,272>>, <<705,328>>, <<708,311>>, <<721,292>>, <<727,264>>,
        <<727,314>>, <<729,294>>, <<738,265>>, <<738,333>> >>],
      [area |-> "Area 37 (The Memory Modification)", coordinates |-> <<
        <<463,325>>, <<471,291>>, <<486,287>>, <<498,343>>, <<501,329>>, <<511,286>>, <<517,358>>, <<538,337>>,
        <<544,310>>, <<545,345>>, <<563,357>>, <<576,352>> >>] >>]
  >>

Min(a, b) == IF a <= b THEN a ELSE b

Range(s) == {s[i] : i \in 1..Len(s)}

\* the part of the table inside the bounds, as explore_ruins_flow sees it
ruin_coords ==
  [l \in 1..Min(MaxLevels, Len(RuinCoordinates)) |->
    [a \in 1..Min(MaxAreas, Len(RuinCoordinates[l].areas)) |->
      SubSeq(RuinCoordinates[l].areas[a].coordinates, 1,
             Min(MaxCoords, Len(RuinCoordinates[l].areas[a].coordinates)))]]

\* coord_key = f"{x},{y}"
coord_key(c) == ToString(c[1]) \o "," \o ToString(c[2])

RECURSIVE Flatten(_)
\* concatenation of a sequence of sequences
Flatten(ss) == IF ss = <<>> THEN <<>> ELSE Head(ss) \o Flatten(Tail(ss))

\* the coordinates in the order of the three nested loops of the flow
CatalogOrder == Flatten([l \in DOMAIN ruin_coords |-> Flatten(ruin_coords[l])])

(***************************************************************************)
(* Configuration and environment.                                            *)
(***************************************************************************)
\* the names of config["ui_elements"] the modelled code looks up
Elements == {"MarchNb1", "MarchNb2", "exploreNew", "home_button"}

\* the configurations a behaviour starts from: every element configured,
\* every way of leaving out the march indicators, each other element left
\* out alone, and the empty configuration of a failed load_config
Configs ==
  {Elements \ S : S \in SUBSET {"MarchNb1", "MarchNb2"}}
    \cup {Elements \ {e} : e \in Elements} \cup {{}}

\* a key of no coordinate of the table, as a hand-edited file may hold
ForeignKey == "0,0"

\* the key of the second coordinate of the walk: a run that finds it on
\* disk has coordinates to probe before and after an explored one
SecondKey == coord_key(CatalogOrder[Min(2, Len(CatalogOrder))])

\* the lists found on disk before the first run: no file or an empty list,
\* an explored coordinate, a foreign key, both, and a key stored twice.
\* The lists a run leaves behind are the starting points of later runs
InitDisks ==
  {<<>>, <<SecondKey>>, <<ForeignKey>>, <<ForeignKey, SecondKey>>,
   <<SecondKey, SecondKey>>}

\* no key at all
NoKey == ""

VARIABLES
  device,            \* bot.device is set
  gui_detector,      \* bot.gui_detector is set
  config,            \* the element names present in config["ui_elements"]
  last_reset,        \* CityManager.last_reset
  disk,              \* the list stored in explored_ruins.json
  pc,                \* position of the worker thread
  found_march1,      \* local of count_available_marches
  found_march2,      \* local of count_available_marches
  march_count,       \* local of count_available_marches, its return value
  available_marches, \* local of explore_ruins_flow
  explored_ruins,    \* local of explore_ruins_flow
  marches_used,      \* local of explore_ruins_flow
  total_explored,    \* local of explore_ruins_flow
  level,             \* index of the level loop
  area,              \* index of the area loop
  idx,               \* index of the coordinate loop
  probe_result,      \* value returned by search_ruin_at_coordinate
  result,            \* how the last call of explore_ruins_flow ended
  loaded,            \* history: the list loaded by this run
  probed,            \* history: the keys probed by this run, in order
  last_failed,       \* history: the last key whose probe returned False
  tapped,            \* history: this call issued a tap or text input
  writes,            \* history: number of writes of the file by this run
  home_click,        \* history: how the home_button click of this run went
  bot_pc,            \* position inside a method of MinimalBot
  bot_ret,           \* the value the last method of MinimalBot returned
  last_call,         \* history: the method of MinimalBot called last
  obtained,          \* history: this connect_device call obtained a device
  echoed,            \* history: the device answered 'echo test'
  screencaps,        \* history: screen captures of this detect_ui_element
  game_running,      \* the game holds the focused window of the device
  starts,            \* history: start commands issued by this launch_game
  checks,            \* history: what is_game_running told this launch_game
  no_image_path,     \* the configured elements whose entry has no image_path
  stack,             \* the frames of the CityManager methods being run
  nav_ret,           \* the value the method that ended last returned
  nav_from,          \* the method that returned last, until the next call
  nav_call,          \* history: the method the caller called
  invoked,           \* history: the tasks run_periodic_tasks has called
  caught,            \* history: run_periodic_tasks caught an exception
  click,             \* history: the current or last click_element call
  steps,             \* history: UI steps of search_ruin_at_coordinate
  outcomes,          \* history: the clicks of go_to_shipment_collect
  is_running,        \* bot.is_running, the stop flag
  start_enabled,     \* the Start Basic Loop button is enabled, Stop is not
  loop_pc,           \* position of the basic_loop worker thread
  waited,            \* the counter i of the wait loop of basic_loop
  threads,           \* the number of live worker threads of each kind
  overlap,           \* history: a worker was started while another lived
  other              \* the locals and history of a second thread in the flow

\* the position and the history of a call of a method of MinimalBot
bot_vars == <<bot_pc, bot_ret, last_call, obtained, echoed, screencaps,
              game_running, starts, checks>>

\* the frames and the history of a call of a navigation method
nav_vars == <<no_image_path, stack, nav_ret, nav_from, nav_call, invoked,
              caught, click, steps, outcomes>>

\* the state of the window and of the threads it starts
gui_vars == <<is_running, start_enabled, loop_pc, waited, threads, overlap>>

vars == <<device, gui_detector, config, last_reset, disk, pc, found_march1,
          found_march2, march_count, available_marches, explored_ruins,
          marches_used, total_explored, level, area, idx, probe_result,
          result, loaded, probed, last_failed, tapped, writes, home_click,
          bot_vars,
          nav_vars, gui_vars, other>>

\* the state the flow reads and the caller keeps
env == <<device, gui_detector, config, last_reset, bot_vars, nav_vars,
         gui_vars, other>>
\* the locals of count_available_marches
count_locals == <<found_march1, found_march2, march_count>>
\* the locals of explore_ruins_flow
locals == <<available_marches, explored_ruins, marches_used, total_explored,
            level, area, idx, probe_result>>
\* the history variables of one run
hist == <<loaded, probed, last_failed, tapped, writes, home_click>>

\* found of bot.detect_ui_element_in_area: without a detector or a device
\* the call returns (False, ...), otherwise the matcher decides
Detect == IF gui_detector /\ device THEN BOOLEAN ELSE {FALSE}

\* no coordinate pair: the second component of a return value that is no pair
NoPoint == <<0, 0>>

\* no method of MinimalBot has returned yet
NoReturn == [ok |-> FALSE, kind |-> "none", at |-> NoPoint]

\* no method of MinimalBot is running
BotIdle ==
  /\ bot_pc = "idle"
  /\ bot_ret = NoReturn
  /\ last_call = "none"
  /\ obtained = FALSE
  /\ echoed = FALSE
  /\ screencaps = 0
  /\ game_running = FALSE
  /\ starts = 0
  /\ checks = <<>>

\* no click_element call has been made
NoClick ==
  [name |-> "", max |-> 0, detections |-> 0, taps |-> 0, tap_at |-> 0,
   hit |-> FALSE, tap_ok |-> FALSE]

\* no navigation method is running and none has run
NavIdle ==
  /\ stack = <<>>
  /\ nav_ret = "none"
  /\ nav_from = "none"
  /\ nav_call = "none"
  /\ invoked = <<>>
  /\ caught = FALSE
  /\ click = NoClick
  /\ steps = <<>>
  /\ outcomes = <<>>

\* the kinds of worker thread: the three places of basic_loop where a
\* thread of it can be, and a thread for each button that runs a method
\* of CityManager
ThreadKinds ==
  {"basic_loop:while", "basic_loop:flow", "basic_loop:wait",
   "explore_ruins_flow", "run_periodic_tasks", "go_to_research_area",
   "count_available_marches", "go_to_shipment_collect",
   "click_buildings_panel", "click_troops_panel", "click_march_panel",
   "reset_to_city", "is_in_city"}

\* the window after setup_gui: Start enabled, Stop disabled, no thread
GuiIdle ==
  /\ is_running = FALSE
  /\ start_enabled = TRUE
  /\ loop_pc = "none"
  /\ waited = 0
  /\ threads = [k \in ThreadKinds |-> 0]
  /\ overlap = FALSE

\* the locals and history of a thread that has not entered the flow
IdleFrame ==
  [pc |-> "idle", found_march1 |-> FALSE, found_march2 |-> FALSE,
   march_count |-> 0, available_marches |-> 0, explored_ruins |-> <<>>,
   marches_used |-> 0, total_explored |-> 0, level |-> 1, area |-> 1,
   idx |-> 1, probe_result |-> FALSE, result |-> "none", loaded |-> <<>>,
   probed |-> <<>>, last_failed |-> NoKey, tapped |-> FALSE, writes |-> 0,
   home_click |-> "none"]

\* no flow of CityManager is running and none has run
FlowIdle ==
  /\ pc = "idle"
  /\ found_march1 = FALSE
  /\ found_march2 = FALSE
  /\ march_count = 0
  /\ available_marches = 0
  /\ explored_ruins = <<>>
  /\ marches_used = 0
  /\ total_explored = 0
  /\ level = 1
  /\ area = 1
  /\ idx = 1
  /\ probe_result = FALSE
  /\ result = "none"
  /\ loaded = <<>>
  /\ probed = <<>>
  /\ last_failed = NoKey
  /\ tapped = FALSE
  /\ writes = 0
  /\ home_click = "none"
  /\ other = IdleFrame

Init ==
  /\ device \in BOOLEAN
  /\ gui_detector \in BOOLEAN
  /\ config \in Configs
  /\ last_reset = 0
  /\ disk \in InitDisks
  /\ FlowIdle
  /\ BotIdle
  /\ no_image_path = {}
  /\ NavIdle
  /\ GuiIdle

(***************************************************************************)
(* count_available_marches                                                   *)
(***************************************************************************)
\* the count without its test of the device
count_available_marches_no_device_test(dev, cfg, found1, found2) ==
  2 - (IF "MarchNb1" \in cfg /\ found1 THEN 1 ELSE 0)
    - (IF "MarchNb2" \in cfg /\ found2 THEN 1 ELSE 0)

\* the value returned, from the device, the configuration and the two
\* detection outcomes
count_available_marches(dev, cfg, found1, found2) ==
  IF ~dev THEN 0
  ELSE 2 - (IF "MarchNb1" \in cfg /\ found1 THEN 1 ELSE 0)
         - (IF "MarchNb2" \in cfg /\ found2 THEN 1 ELSE 0)

\* one call: the two detections and the value returned.  Without a device
\* the call returns before any detection; an indicator that is not
\* configured is not looked for
CountCall ==
  \E found1 \in Detect, found2 \in Detect :
    /\ found_march1' = (device /\ "MarchNb1" \in config /\ found1)
    /\ found_march2' = (device /\ "MarchNb2" \in config /\ found2)
    /\ march_count' =
         count_available_marches(device, config, found1, found2)

\* the frame of count_available_marches is gone
CountReturn ==
  /\ found_march1' = FALSE
  /\ found_march2' = FALSE
  /\ march_count' = 0

\* the "Check Ruins" button: MinimalBotGUI.count_available_marches starts a
\* thread that runs _count_available_marches
CheckRuins ==
  /\ pc = "idle"
  /\ device
  /\ pc' = "check"
  /\ tapped' = FALSE
  /\ UNCHANGED <<env, disk, count_locals, locals, result, loaded, probed,
                 last_failed, home_click, writes>>

\* the call of CityManager.count_available_marches made by that thread
CheckRuinsCount ==
  /\ pc = "check"
  /\ CountCall
  /\ pc' = "checked"
  /\ UNCHANGED <<env, disk, locals, result, hist>>

\* the thread logs the value and ends
CheckRuinsDone ==
  /\ pc = "checked"
  /\ CountReturn
  /\ pc' = "idle"
  /\ UNCHANGED <<env, disk, locals, result, hist>>

(***************************************************************************)
(* Helpers of explore_ruins_flow                                             *)
(***************************************************************************)
\* load_explored_ruins: the list stored in the file ([] without a file)
load_explored_ruins(file) == file

\* a save that leaves the file as it was
save_explored_ruins_skipped(file, explored) == file

\* save_explored_ruins: the file after json.dump(explored_ruins) over it
save_explored_ruins(file, explored) == explored

\* a flow that goes on with a budget of 0
NoMarches_never(available) == FALSE

\* "if available_marches == 0"
NoMarches(available) == available = 0

\* loop heads that let one march too many through
BudgetSpent_late(used, available) == used > available

\* loop heads that stop one march short of the budget
BudgetSpent_early(used, available) == used >= available - 1

\* the three loop heads test marches_used >= available_marches
BudgetSpent(used, available) == used >= available

\* a loop body without the skip of explored coordinates
AlreadyExplored_never(key, explored) == FALSE

\* "if coord_key in explored_ruins: continue"
AlreadyExplored(key, explored) == key \in Range(explored)

\* click_element(name): True when the element is configured, some attempt
\* detects it and bot.click_coordinate taps it without an exception
click_element(name, found, tap_ok) ==
  device /\ name \in config /\ found /\ tap_ok

\* click_element(name) reaches bot.click_coordinate
ClickTaps(name, found) == device /\ name \in config /\ found

\* a coordinate loop that walks each area from its end
CurrentCoord_reversed ==
  ruin_coords[level][area][Len(ruin_coords[level][area]) + 1 - idx]

\* the coordinate the coordinate loop is at
CurrentCoord == ruin_coords[level][area][idx]

\* an exception leaves explore_ruins_flow: the caller's handler gets it
Raise ==
  /\ pc' = "idle"
  /\ result' = "raised"

(***************************************************************************)
(* explore_ruins_flow                                                        *)
(***************************************************************************)
\* the first statements of explore_ruins_flow: fresh locals, and the call
\* of count_available_marches next
EnterFlow ==
  /\ pc' = "count"
  /\ result' = "none"
  /\ available_marches' = 0
  /\ explored_ruins' = <<>>
  /\ marches_used' = 0
  /\ total_explored' = 0
  /\ level' = 1
  /\ area' = 1
  /\ idx' = 1
  /\ probe_result' = FALSE
  /\ loaded' = <<>>
  /\ probed' = <<>>
  /\ tapped' = FALSE
  /\ writes' = 0
  /\ home_click' = "none"

\* a caller (basic_loop, the Explore Ruins button) enters the flow
StartFlow ==
  /\ pc = "idle"
  /\ EnterFlow
  /\ UNCHANGED <<env, disk, count_locals, last_failed>>

\* a count that clicks the indicators it finds
FlowCount_clicks ==
  /\ pc = "count"
  /\ CountCall
  /\ tapped' = (found_march1' \/ found_march2')
  /\ pc' = "counted"
  /\ UNCHANGED <<env, disk, locals, result, loaded, probed, last_failed,
                 home_click,
                 writes>>

\* the call in "available_marches = self.count_available_marches()"
FlowCount ==
  /\ pc = "count"
  /\ CountCall
  /\ pc' = "counted"
  /\ UNCHANGED <<env, disk, locals, result, hist>>

\* the assignment and "if available_marches == 0: return False"
FlowBudget ==
  /\ pc = "counted"
  /\ available_marches' = march_count
  /\ CountReturn
  /\ IF NoMarches(march_count)
     THEN pc' = "idle" /\ result' = "False"
     ELSE pc' = "load" /\ result' = result
  /\ UNCHANGED <<env, disk, explored_ruins, marches_used, total_explored,
                 level, area, idx, probe_result, hist>>

\* explored_ruins = self.load_explored_ruins(); marches_used = 0
FlowLoad ==
  /\ pc = "load"
  /\ explored_ruins' = load_explored_ruins(disk)
  /\ loaded' = load_explored_ruins(disk)
  /\ marches_used' = 0
  /\ total_explored' = 0
  /\ level' = 1
  /\ pc' = "level"
  /\ UNCHANGED <<env, disk, count_locals, available_marches, area, idx,
                 probe_result, result, probed, last_failed, home_click,
                 tapped, writes>>

\* head of "for level, areas in ruin_coords.items()"
LevelLoop ==
  /\ pc = "level"
  /\ IF level > Len(ruin_coords) \/ BudgetSpent(marches_used, available_marches)
     THEN pc' = "home" /\ area' = area
     ELSE pc' = "area" /\ area' = 1
  /\ UNCHANGED <<env, disk, count_locals, available_marches, explored_ruins,
                 marches_used, total_explored, level, idx, probe_result,
                 result, hist>>

\* head of "for area_name, coordinates in areas.items()"
AreaLoop ==
  /\ pc = "area"
  /\ IF area > Len(ruin_coords[level])
        \/ BudgetSpent(marches_used, available_marches)
     THEN pc' = "level" /\ level' = level + 1 /\ idx' = idx
     ELSE pc' = "coord" /\ level' = level /\ idx' = 1
  /\ UNCHANGED <<env, disk, count_locals, available_marches, explored_ruins,
                 marches_used, total_explored, area, probe_result, result,
                 hist>>

\* head of "for coord in coordinates" up to the call of
\* search_ruin_at_coordinate
CoordLoop ==
  /\ pc = "coord"
  /\ IF idx > Len(ruin_coords[level][area])
        \/ BudgetSpent(marches_used, available_marches)
     THEN pc' = "area" /\ area' = area + 1 /\ idx' = idx
          /\ probed' = probed
     ELSE IF AlreadyExplored(coord_key(CurrentCoord), explored_ruins)
     THEN pc' = "coord" /\ area' = area /\ idx' = idx + 1
          /\ probed' = probed
     ELSE pc' = "input_X" /\ area' = area /\ idx' = idx
          /\ probed' = Append(probed, coord_key(CurrentCoord))
  /\ UNCHANGED <<env, disk, count_locals, available_marches, explored_ruins,
                 marches_used, total_explored, level, probe_result, result,
                 loaded, last_failed, home_click, tapped, writes>>

(***************************************************************************)
(* search_ruin_at_coordinate and input_coordinate                            *)
(***************************************************************************)
CoordTypes == {"X", "Y"}

\* how input_coordinate ends: the tap on the field, outside the try block,
\* raises; a shell call of the try block raises, which returns False; or
\* every call returns, which returns True
InputOutcomes == {"tap_raises", "False", "True"}

\* where search_ruin_at_coordinate goes on after input_coordinate(t)
AfterInput(t) == IF t = "X" THEN "input_Y" ELSE "tap_search"

\* "if not self.input_coordinate(t, ...): return False"
InputCoordinate(t) ==
  /\ pc = "input_" \o t
  /\ tapped' = TRUE
  /\ \E o \in InputOutcomes :
       CASE o = "tap_raises" -> Raise /\ probe_result' = probe_result
         [] o = "False" -> /\ pc' = "probe_ret"
                           /\ probe_result' = FALSE
                           /\ result' = result
         [] o = "True" -> /\ pc' = AfterInput(t)
                          /\ probe_result' = probe_result
                          /\ result' = result
  /\ UNCHANGED <<env, disk, count_locals, available_marches, explored_ruins,
                 marches_used, total_explored, level, area, idx, loaded,
                 probed, last_failed, home_click, writes>>

\* the shell calls "input tap 1061 41" and "input tap 951 313", either of
\* which may raise
TapSearch ==
  /\ pc = "tap_search"
  /\ tapped' = TRUE
  /\ \E raises \in BOOLEAN :
       IF raises THEN Raise
       ELSE pc' = "click_explore" /\ result' = result
  /\ UNCHANGED <<env, disk, count_locals, locals, loaded, probed,
                 last_failed, home_click, writes>>

\* "if self.click_element("exploreNew", max_attempts=1, threshold=0.4)":
\* its outcome is what search_ruin_at_coordinate returns
ClickExplore ==
  /\ pc = "click_explore"
  /\ \E found \in Detect, tap_ok \in BOOLEAN :
       /\ probe_result' = click_element("exploreNew", found, tap_ok)
       /\ tapped' = (tapped \/ ClickTaps("exploreNew", found))
  /\ pc' = "probe_ret"
  /\ UNCHANGED <<env, disk, count_locals, available_marches, explored_ruins,
                 marches_used, total_explored, level, area, idx, result,
                 loaded, probed, last_failed, home_click, writes>>

(***************************************************************************)
(* explore_ruins_flow, after the probe                                       *)
(***************************************************************************)
\* a loop body that marks a coordinate explored only when its march started
MarkExplored_only_started ==
  /\ pc = "probe_ret"
  /\ marches_used' = IF probe_result THEN marches_used + 1 ELSE marches_used
  /\ total_explored' = IF probe_result THEN total_explored + 1
                       ELSE total_explored
  /\ explored_ruins' =
       IF probe_result
       THEN Append(explored_ruins, coord_key(CurrentCoord))
       ELSE explored_ruins
  /\ disk' = IF probe_result THEN save_explored_ruins(disk, explored_ruins')
             ELSE disk
  /\ writes' = IF probe_result THEN writes + 1 ELSE writes
  /\ last_failed' = IF probe_result THEN last_failed
                    ELSE coord_key(CurrentCoord)
  /\ probe_result' = FALSE
  /\ idx' = idx + 1
  /\ pc' = "coord"
  /\ UNCHANGED <<env, count_locals, available_marches, level, area, result,
                 loaded, probed, tapped, home_click>>

\* the rest of the loop body: count a started march, append the key, save
MarkExplored ==
  /\ pc = "probe_ret"
  /\ marches_used' = IF probe_result THEN marches_used + 1 ELSE marches_used
  /\ total_explored' = IF probe_result THEN total_explored + 1
                       ELSE total_explored
  /\ explored_ruins' = Append(explored_ruins, coord_key(CurrentCoord))
  /\ disk' = save_explored_ruins(disk, explored_ruins')
  /\ writes' = writes + 1
  /\ last_failed' = IF probe_result THEN last_failed
                    ELSE coord_key(CurrentCoord)
  /\ probe_result' = FALSE
  /\ idx' = idx + 1
  /\ pc' = "coord"
  /\ UNCHANGED <<env, count_locals, available_marches, level, area, result,
                 loaded, probed, tapped, home_click>>

\* a return value that needs the home_button click to succeed
ReturnHome_needs_click ==
  /\ pc = "home"
  /\ \E found \in Detect, tap_ok \in BOOLEAN :
       /\ tapped' = (tapped \/ ClickTaps("home_button", found))
       /\ home_click' = IF click_element("home_button", found, tap_ok)
                        THEN "True" ELSE "False"
       /\ result' = IF marches_used > 0
                       /\ click_element("home_button", found, tap_ok)
                    THEN "True" ELSE "False"
  /\ pc' = "idle"
  /\ UNCHANGED <<env, disk, count_locals, locals, loaded, probed,
                 last_failed, writes>>

\* after the loops: click_element("home_button"); return marches_used > 0
ReturnHome ==
  /\ pc = "home"
  /\ \E found \in Detect, tap_ok \in BOOLEAN :
       /\ tapped' = (tapped \/ ClickTaps("home_button", found))
       /\ home_click' = IF click_element("home_button", found, tap_ok)
                        THEN "True" ELSE "False"
  /\ result' = IF marches_used > 0 THEN "True" ELSE "False"
  /\ pc' = "idle"
  /\ UNCHANGED <<env, disk, count_locals, locals, loaded, probed,
                 last_failed, writes>>

Next ==
  \/ CheckRuins
  \/ CheckRuinsCount
  \/ CheckRuinsDone
  \/ StartFlow
  \/ FlowCount
  \/ FlowBudget
  \/ FlowLoad
  \/ LevelLoop
  \/ AreaLoop
  \/ CoordLoop
  \/ \E t \in CoordTypes : InputCoordinate(t)
  \/ TapSearch
  \/ ClickExplore
  \/ MarkExplored
  \/ ReturnHome

Spec == Init /\ [][Next]_vars

(***************************************************************************)
(* MinimalBot: connect_device and detect_ui_element, statement by statement. *)
(* One caller at a time runs one method; every call of the adb bridge, of   *)
(* the device and of OpenCV either returns or raises.                        *)
(***************************************************************************)
\* the flow variables, which the methods of MinimalBot leave alone
flow_vars == <<disk, pc, count_locals, locals, result, hist, other>>

\* what no method of MinimalBot touches
not_bot == <<config, last_reset, flow_vars, nav_vars, gui_vars>>

\* the game on the device, the start commands sent to it and the answers
\* of is_game_running to launch_game
game_vars == <<game_running, starts, checks>>

\* a returned pair (ok, message string)
Message(ok) == [ok |-> ok, kind |-> "message", at |-> NoPoint]

\* a method of MinimalBot returns v to its caller
BotReturn(v) ==
  /\ bot_pc' = "idle"
  /\ bot_ret' = v

\* the exception leaves connect_device
connect_except_reraised == [ok |-> FALSE, kind |-> "raised", at |-> NoPoint]

\* "except Exception as e: return False, f"Connection error: ...""
connect_except == Message(FALSE)

\* a caller (the Connect Device button, test_device_connection) calls
\* connect_device
ConnectDevice ==
  /\ bot_pc = "idle"
  /\ bot_pc' = "enable_adb"
  /\ bot_ret' = NoReturn
  /\ last_call' = "connect_device"
  /\ obtained' = FALSE
  /\ echoed' = FALSE
  /\ UNCHANGED <<device, gui_detector, not_bot,
                 screencaps, game_vars>>

\* "adb.bridge = adb.enable_adb()"
EnableAdb ==
  /\ bot_pc = "enable_adb"
  /\ \E raises \in BOOLEAN :
       IF raises THEN BotReturn(connect_except)
       ELSE bot_pc' = "get_client_devices" /\ bot_ret' = bot_ret
  /\ UNCHANGED <<device, gui_detector, not_bot,
                 last_call, obtained, echoed, screencaps, game_vars>>

\* "devices = adb.bridge.get_client_devices()" and "if not devices"
GetClientDevices ==
  /\ bot_pc = "get_client_devices"
  /\ \E o \in {"raises", "empty", "devices"} :
       CASE o = "raises" -> BotReturn(connect_except)
         [] o = "empty" -> bot_pc' = "get_device" /\ bot_ret' = bot_ret
         [] o = "devices" -> bot_pc' = "pick" /\ bot_ret' = bot_ret
  /\ UNCHANGED <<device, gui_detector, not_bot,
                 last_call, obtained, echoed, screencaps, game_vars>>

\* "self.device = adb.bridge.get_device(host, port)" and
\* "if self.device is None: return False, ..."
GetDevice ==
  /\ bot_pc = "get_device"
  /\ \E o \in {"raises", "None", "device"} :
       CASE o = "raises" -> /\ BotReturn(connect_except)
                            /\ UNCHANGED <<device, obtained>>
         [] o = "None" -> /\ device' = FALSE
                          /\ BotReturn(Message(FALSE))
                          /\ obtained' = obtained
         [] o = "device" -> /\ device' = TRUE
                            /\ obtained' = TRUE
                            /\ bot_pc' = "echo"
                            /\ bot_ret' = bot_ret
  /\ UNCHANGED <<gui_detector, not_bot, last_call,
                 echoed, screencaps, game_vars>>

\* "self.device = devices[0]", or the device of the serial asked for and
\* "if not self.device: return False, ..."
PickDevice ==
  /\ bot_pc = "pick"
  /\ \E serial_given \in BOOLEAN, serial_listed \in BOOLEAN :
       IF serial_given /\ ~serial_listed
       THEN /\ device' = FALSE
            /\ BotReturn(Message(FALSE))
            /\ obtained' = obtained
       ELSE /\ device' = TRUE
            /\ obtained' = TRUE
            /\ bot_pc' = "echo"
            /\ bot_ret' = bot_ret
  /\ UNCHANGED <<gui_detector, not_bot, last_call,
                 echoed, screencaps, game_vars>>

\* "test_result = self.device.shell('echo test')" under its own handler
EchoTest ==
  /\ bot_pc = "echo"
  /\ \E o \in {"raises", "other", "test"} :
       CASE o = "raises" -> BotReturn(Message(FALSE)) /\ echoed' = echoed
         [] o = "other" -> BotReturn(Message(FALSE)) /\ echoed' = echoed
         [] o = "test" -> /\ echoed' = TRUE
                          /\ bot_pc' = "GuiDetector"
                          /\ bot_ret' = bot_ret
  /\ UNCHANGED <<device, gui_detector, not_bot,
                 last_call, obtained, screencaps, game_vars>>

\* "self.gui_detector = GuiDetector(self.device)" and "return True, ..."
MakeGuiDetector ==
  /\ bot_pc = "GuiDetector"
  /\ \E raises \in BOOLEAN :
       IF raises THEN BotReturn(connect_except) /\ gui_detector' = gui_detector
       ELSE gui_detector' = TRUE /\ BotReturn(Message(TRUE))
  /\ UNCHANGED <<device, not_bot, last_call, obtained,
                 echoed, screencaps, game_vars>>

\* the thresholds callers pass, in tenths: 0.4, the default 0.5 and 0.8
Thresholds == {4, 5, 8}
\* the best match value max_val of cv2.minMaxLoc, in tenths
MatchValues == {3, 4, 5, 9}
\* the place max_loc of the best match
MatchLocs == {<<0, 0>>, <<10, 20>>, <<7, 3>>}
\* the (height, width) of a template image
TemplateShapes == {<<3, 5>>, <<4, 4>>, <<1, 2>>}

\* the exception leaves detect_ui_element
detect_except_reraised == [ok |-> FALSE, kind |-> "raised", at |-> NoPoint]

\* "except Exception as e: return False, f"Detection error: ...""
detect_except == [ok |-> FALSE, kind |-> "error", at |-> NoPoint]

\* "return False, None"
NotFound == [ok |-> FALSE, kind |-> "None", at |-> NoPoint]

\* "center_x = max_loc[0] + w // 2", "center_y = max_loc[1] + h // 2" and
\* "return True, (center_x, center_y)", for shape = (h, w)
Center(max_loc, shape) ==
  [ok |-> TRUE, kind |-> "pair",
   at |-> <<max_loc[1] + shape[2] \div 2, max_loc[2] + shape[1] \div 2>>]

\* a caller (the Detect Element button, test_ui_detection) calls
\* detect_ui_element
DetectUiElement ==
  /\ bot_pc = "idle"
  /\ bot_pc' = "detect"
  /\ bot_ret' = NoReturn
  /\ last_call' = "detect_ui_element"
  /\ screencaps' = 0
  /\ UNCHANGED <<device, gui_detector, not_bot,
                 obtained, echoed, game_vars>>

\* "if not self.gui_detector: return False, None"
DetectGuard ==
  /\ bot_pc = "detect"
  /\ IF ~gui_detector THEN BotReturn(NotFound)
     ELSE bot_pc' = "screencap" /\ bot_ret' = bot_ret
  /\ UNCHANGED <<device, gui_detector, not_bot,
                 last_call, obtained, echoed, screencaps, game_vars>>

\* "screenshot_bytes = self.device.screencap()" and cv2.imdecode of it:
\* without a device the attribute lookup raises before any capture
Screencap ==
  /\ bot_pc = "screencap"
  /\ IF ~device
     THEN BotReturn(detect_except) /\ screencaps' = screencaps
     ELSE /\ screencaps' = screencaps + 1
          /\ \E raises \in BOOLEAN :
               IF raises THEN BotReturn(detect_except)
               ELSE bot_pc' = "imread" /\ bot_ret' = bot_ret
  /\ UNCHANGED <<device, gui_detector, not_bot,
                 last_call, obtained, echoed, game_vars>>

\* "template_img = cv2.imread(template_path)" and "if template_img is None:
\* return False, f"Template image not found: ...""
Imread ==
  /\ bot_pc = "imread"
  /\ \E o \in {"raises", "None", "image"} :
       CASE o = "raises" -> BotReturn(detect_except)
         [] o = "None" -> BotReturn([ok |-> FALSE, kind |-> "error",
                                      at |-> NoPoint])
         [] o = "image" -> bot_pc' = "matchTemplate" /\ bot_ret' = bot_ret
  /\ UNCHANGED <<device, gui_detector, not_bot,
                 last_call, obtained, echoed, screencaps, game_vars>>

\* cv2.matchTemplate, cv2.minMaxLoc and "if max_val >= threshold"
MatchTemplate ==
  /\ bot_pc = "matchTemplate"
  /\ \E raises \in BOOLEAN :
       IF raises THEN BotReturn(detect_except)
       ELSE \E max_val \in MatchValues, threshold \in Thresholds,
               max_loc \in MatchLocs, shape \in TemplateShapes :
              IF max_val >= threshold THEN BotReturn(Center(max_loc, shape))
              ELSE BotReturn(NotFound)
  /\ UNCHANGED <<device, gui_detector, not_bot,
                 last_call, obtained, echoed, screencaps, game_vars>>

\* "return 'mCurrentFocus=Window{' in output and package_name in output"
Bool(b) == [ok |-> b, kind |-> "bool", at |-> NoPoint]

\* the values is_game_running can return: False without a device or when
\* the shell call raises, otherwise what the dumpsys output shows
is_game_running == IF device THEN {game_running, FALSE} ELSE {FALSE}

\* a caller (the Check Game button, basic_loop, test_game_detection) calls
\* is_game_running
IsGameRunning ==
  /\ bot_pc = "idle"
  /\ last_call' = "is_game_running"
  /\ \E running \in is_game_running : BotReturn(Bool(running))
  /\ UNCHANGED <<device, gui_detector, not_bot,
                 obtained, echoed, screencaps, game_vars>>

\* a caller (the Launch Game button, basic_loop) calls launch_game, which
\* starts with "if not self.device: return False, "No device connected""
LaunchGame ==
  /\ bot_pc = "idle"
  /\ last_call' = "launch_game"
  /\ starts' = 0
  /\ checks' = <<>>
  /\ IF ~device THEN BotReturn(Message(FALSE))
     ELSE bot_pc' = "launch" /\ bot_ret' = NoReturn
  /\ UNCHANGED <<device, gui_detector, not_bot,
                 obtained, echoed, screencaps, game_running>>

\* the start command is sent whatever is_game_running answered
LaunchCheck_always_starts ==
  /\ bot_pc = "launch"
  /\ \E running \in is_game_running :
       /\ checks' = Append(checks, running)
       /\ bot_pc' = "am_start" /\ bot_ret' = bot_ret
  /\ UNCHANGED <<device, gui_detector, not_bot, last_call, obtained,
                 echoed, screencaps, game_running, starts>>

\* "if self.is_game_running(package_name): return True, ..."
LaunchCheck ==
  /\ bot_pc = "launch"
  /\ \E running \in is_game_running :
       /\ checks' = Append(checks, running)
       /\ IF running THEN BotReturn(Message(TRUE))
          ELSE bot_pc' = "am_start" /\ bot_ret' = bot_ret
  /\ UNCHANGED <<device, gui_detector, not_bot, last_call, obtained,
                 echoed, screencaps, game_running, starts>>

\* "result = self.device.shell(cmd)" of the start command, which may
\* raise, and which brings the game to the front or not
AmStart ==
  /\ bot_pc = "am_start"
  /\ starts' = starts + 1
  /\ \E raises \in BOOLEAN, started \in BOOLEAN :
       /\ game_running' = (game_running \/ started)
       /\ IF raises THEN BotReturn(Message(FALSE))
          ELSE bot_pc' = "launched" /\ bot_ret' = bot_ret
  /\ UNCHANGED <<device, gui_detector, not_bot,
                 last_call, obtained, echoed, screencaps, checks>>

\* "if self.is_game_running(package_name): return True, ... else: return
\* False, ..."
LaunchVerify ==
  /\ bot_pc = "launched"
  /\ \E running \in is_game_running :
       /\ checks' = Append(checks, running)
       /\ BotReturn(Message(running))
  /\ UNCHANGED <<device, gui_detector, not_bot, last_call, obtained,
                 echoed, screencaps, game_running, starts>>

\* the user or the system closes the game
GameCloses ==
  /\ game_running
  /\ game_running' = FALSE
  /\ UNCHANGED <<device, gui_detector, not_bot,
                 bot_pc, bot_ret, last_call, obtained, echoed, screencaps,
                 starts, checks>>

\* the state after "MinimalBot()"
InitBot ==
  /\ device = FALSE
  /\ gui_detector = FALSE
  /\ config = Elements
  /\ last_reset = 0
  /\ disk = <<>>
  /\ FlowIdle
  /\ BotIdle
  /\ no_image_path = {}
  /\ NavIdle
  /\ GuiIdle

NextBot ==
  \/ ConnectDevice
  \/ EnableAdb
  \/ GetClientDevices
  \/ GetDevice
  \/ PickDevice
  \/ EchoTest
  \/ MakeGuiDetector
  \/ DetectUiElement
  \/ DetectGuard
  \/ Screencap
  \/ Imread
  \/ MatchTemplate
  \/ IsGameRunning
  \/ LaunchGame
  \/ LaunchCheck
  \/ AmStart
  \/ LaunchVerify
  \/ GameCloses

SpecBot == InitBot /\ [][NextBot]_vars

(***************************************************************************)
(* CityManager: the navigation methods, run_periodic_tasks and               *)
(* search_ruin_at_coordinate, statement by statement.  A method being run   *)
(* is a frame of the stack: its name, the label it is at, the argument it   *)
(* was called with, its loop counter and the max_attempts it was given.     *)
(* A method that ends pops its frame and leaves its value in nav_ret; an    *)
(* exception unwinds the stack to the nearest handler.                      *)
(***************************************************************************)
\* "max_attempts: int = 4" of click_element
DefaultAttempts == 4
\* "max_attempts=1" of the click on exploreNew
ExploreAttempts == 1

\* the names of config["ui_elements"] these methods look up
NavElements ==
  {"map_button", "home_button", "Castle", "ResearchArea", "DragonPanel",
   "GoldPickup", "DwelingArea", "WareHouse", "ShipmentCollect",
   "ShipmentClaim", "ShipmentContinue", "BackButton", "exploreNew"}

\* the tasks list of run_periodic_tasks
Tasks ==
  <<"go_to_shipment_collect", "go_to_research_area", "go_to_dragon_panel">>

\* the four navigation flows
NavFlows ==
  {"reset_to_city", "go_to_research_area", "go_to_dragon_panel",
   "go_to_shipment_collect"}

\* the methods written as sequences of calls, tests and returns
TableMethods ==
  NavFlows \cup {"ensure_in_city", "search_ruin_at_coordinate",
                 "input_coordinate"}

\* what a method does next: call a method and go on at cont, return a
\* value, or send a shell command to the device and go on at cont
CallI(callee, arg, max, cont) ==
  [op |-> "call", callee |-> callee, arg |-> arg, max |-> max,
   cont |-> cont, value |-> "", stamp |-> FALSE, guarded |-> FALSE]
ClickI(name, cont) == CallI("click_element", name, DefaultAttempts, cont)
RetI(value) ==
  [op |-> "return", callee |-> "", arg |-> "", max |-> 0, cont |-> "",
   value |-> value, stamp |-> FALSE, guarded |-> FALSE]
ShellI(what, guarded, cont) ==
  [op |-> "shell", callee |-> "", arg |-> what, max |-> 0, cont |-> cont,
   value |-> "", stamp |-> FALSE, guarded |-> guarded]

\* reset_to_city that does not verify the city after its two clicks
reset_to_city_unverified(label, r) ==
  CASE label = "enter" -> ClickI("map_button", "map")
    [] label = "map" ->
         IF r = "False" THEN RetI("False") ELSE ClickI("home_button", "home")
    [] label = "home" ->
         IF r = "False" THEN RetI("False")
         ELSE CallI("is_in_city", "", 0, "verify")
    [] label = "verify" -> [RetI("True") EXCEPT !.stamp = TRUE]

\* reset_to_city, where r is what the call before label returned; its
\* "return True" follows "self.last_reset = time.time()"
reset_to_city(label, r) ==
  CASE label = "enter" -> ClickI("map_button", "map")
    [] label = "map" ->
         IF r = "False" THEN RetI("False") ELSE ClickI("home_button", "home")
    [] label = "home" ->
         IF r = "False" THEN RetI("False")
         ELSE CallI("is_in_city", "", 0, "verify")
    [] label = "verify" ->
         IF r = "True" THEN [RetI("True") EXCEPT !.stamp = TRUE]
         ELSE RetI("False")

\* ensure_in_city that resets whatever is_in_city returned
ensure_in_city_always_resets(label, r) ==
  CASE label = "enter" -> CallI("is_in_city", "", 0, "checked")
    [] label = "checked" -> CallI("reset_to_city", "", 0, "reset")
    [] label = "reset" -> RetI(r)

\* ensure_in_city
ensure_in_city(label, r) ==
  CASE label = "enter" -> CallI("is_in_city", "", 0, "checked")
    [] label = "checked" ->
         IF r = "True" THEN RetI("True")
         ELSE CallI("reset_to_city", "", 0, "reset")
    [] label = "reset" -> RetI(r)

\* go_to_research_area: a failed first click on Castle calls reset_to_city
\* and then returns False
go_to_research_area(label, r) ==
  CASE label = "enter" -> CallI("ensure_in_city", "", 0, "ensured")
    [] label = "ensured" ->
         IF r = "False" THEN RetI("False") ELSE ClickI("Castle", "castle1")
    [] label = "castle1" ->
         IF r = "False" THEN CallI("reset_to_city", "", 0, "reset")
         ELSE ClickI("Castle", "castle2")
    [] label = "reset" -> RetI("False")
    [] label = "castle2" ->
         IF r = "False" THEN RetI("False")
         ELSE ClickI("ResearchArea", "research")
    [] label = "research" ->
         IF r = "False" THEN RetI("False") ELSE RetI("True")

\* go_to_dragon_panel that goes on to DragonPanel after a failed Castle click
go_to_dragon_panel_continues(label, r) ==
  CASE label = "enter" -> CallI("ensure_in_city", "", 0, "ensured")
    [] label = "ensured" ->
         IF r = "False" THEN RetI("False")
         ELSE CallI("reset_to_city", "", 0, "reset")
    [] label = "reset" ->
         IF r = "False" THEN RetI("False") ELSE ClickI("Castle", "castle")
    [] label = "castle" -> ClickI("DragonPanel", "dragon")
    [] label = "dragon" ->
         IF r = "False" THEN RetI("False") ELSE RetI("True")

\* go_to_dragon_panel
go_to_dragon_panel(label, r) ==
  CASE label = "enter" -> CallI("ensure_in_city", "", 0, "ensured")
    [] label = "ensured" ->
         IF r = "False" THEN RetI("False")
         ELSE CallI("reset_to_city", "", 0, "reset")
    [] label = "reset" ->
         IF r = "False" THEN RetI("False") ELSE ClickI("Castle", "castle")
    [] label = "castle" ->
         IF r = "False" THEN RetI("False") ELSE ClickI("DragonPanel", "dragon")
    [] label = "dragon" ->
         IF r = "False" THEN RetI("False") ELSE RetI("True")

\* go_to_shipment_collect that does not go back when there is no shipment
go_to_shipment_collect_no_back(label, r) ==
  CASE label = "enter" -> CallI("ensure_in_city", "", 0, "ensured")
    [] label = "ensured" ->
         IF r = "False" THEN RetI("False")
         ELSE CallI("reset_to_city", "", 0, "reset")
    [] label = "reset" ->
         IF r = "False" THEN RetI("False") ELSE ClickI("GoldPickup", "gold")
    [] label = "gold" -> ClickI("DwelingArea", "dwelling")
    [] label = "dwelling" ->
         IF r = "False" THEN RetI("False") ELSE ClickI("WareHouse", "warehouse")
    [] label = "warehouse" ->
         IF r = "False" THEN RetI("False")
         ELSE ClickI("ShipmentCollect", "collect")
    [] label = "collect" ->
         IF r = "True" THEN ClickI("ShipmentClaim", "claim")
         ELSE RetI("False")
    [] label = "claim" ->
         IF r = "True" THEN ClickI("ShipmentContinue", "continue")
         ELSE ClickI("BackButton", "back")
    [] label = "continue" -> ClickI("BackButton", "back")
    [] label = "back" -> RetI("True")
    [] label = "back_none" -> RetI("False")

\* go_to_shipment_collect: the GoldPickup, ShipmentClaim, ShipmentContinue
\* and BackButton clicks are tried and their failure is passed over; a
\* failed ShipmentCollect click is followed by the BackButton click
go_to_shipment_collect(label, r) ==
  CASE label = "enter" -> CallI("ensure_in_city", "", 0, "ensured")
    [] label = "ensured" ->
         IF r = "False" THEN RetI("False")
         ELSE CallI("reset_to_city", "", 0, "reset")
    [] label = "reset" ->
         IF r = "False" THEN RetI("False") ELSE ClickI("GoldPickup", "gold")
    [] label = "gold" -> ClickI("DwelingArea", "dwelling")
    [] label = "dwelling" ->
         IF r = "False" THEN RetI("False") ELSE ClickI("WareHouse", "warehouse")
    [] label = "warehouse" ->
         IF r = "False" THEN RetI("False")
         ELSE ClickI("ShipmentCollect", "collect")
    [] label = "collect" ->
         IF r = "True" THEN ClickI("ShipmentClaim", "claim")
         ELSE ClickI("BackButton", "back_none")
    [] label = "claim" ->
         IF r = "True" THEN ClickI("ShipmentContinue", "continue")
         ELSE ClickI("BackButton", "back")
    [] label = "continue" -> ClickI("BackButton", "back")
    [] label = "back" -> RetI("True")
    [] label = "back_none" -> RetI("False")

\* input_coordinate: the tap on the field is outside the try, the key
\* events and the text are inside it
input_coordinate(label, r) ==
  CASE label = "enter" -> ShellI("tap_field", FALSE, "focused")
    [] label = "focused" -> ShellI("clear", TRUE, "cleared")
    [] label = "cleared" -> ShellI("type", TRUE, "typed")
    [] label = "typed" -> ShellI("enter", TRUE, "entered")
    [] label = "entered" -> RetI("True")

\* search_ruin_at_coordinate up to its last reachable statement, the return
\* of what the click on exploreNew returned
search_ruin_at_coordinate(label, r) ==
  CASE label = "enter" -> CallI("input_coordinate", "X", 0, "x_typed")
    [] label = "x_typed" ->
         IF r = "False" THEN RetI("False")
         ELSE CallI("input_coordinate", "Y", 0, "y_typed")
    [] label = "y_typed" ->
         IF r = "False" THEN RetI("False")
         ELSE ShellI("tap_search", FALSE, "searched")
    [] label = "searched" -> ShellI("tap_map", FALSE, "map_tapped")
    [] label = "map_tapped" ->
         CallI("click_element", "exploreNew", ExploreAttempts, "explore")
    [] label = "explore" -> RetI(r)

\* the next instruction of the method fn at label
Instr(fn, label, r) ==
  CASE fn = "reset_to_city" -> reset_to_city(label, r)
    [] fn = "ensure_in_city" -> ensure_in_city(label, r)
    [] fn = "go_to_research_area" -> go_to_research_area(label, r)
    [] fn = "go_to_dragon_panel" -> go_to_dragon_panel(label, r)
    [] fn = "go_to_shipment_collect" -> go_to_shipment_collect(label, r)
    [] fn = "input_coordinate" -> input_coordinate(label, r)
    [] fn = "search_ruin_at_coordinate" -> search_ruin_at_coordinate(label, r)

\* the frame on top of the stack, the method being run
Top == stack[Len(stack)]
\* the stack without its top frame
Pop == SubSeq(stack, 1, Len(stack) - 1)
\* the frame of a method that has just been called
Frame(fn, arg, max) ==
  [fn |-> fn, label |-> "enter", arg |-> arg, n |-> 0, max |-> max]
\* the stack with its top frame at another label
At(label) == [stack EXCEPT ![Len(stack)].label = label]

\* what the methods of CityManager modelled here leave alone
not_nav == <<device, gui_detector, config, no_image_path, flow_vars,
             bot_vars, gui_vars>>

\* the top method returns v to its caller
Return(v) ==
  /\ stack' = Pop
  /\ nav_ret' = v
  /\ nav_from' = Top.fn

\* the top method goes on at label
Goto(label) ==
  /\ stack' = At(label)
  /\ nav_ret' = "none"
  /\ nav_from' = "none"

\* an exception is raised: inside run_periodic_tasks its handler takes
\* over, otherwise the exception reaches the caller
Throw ==
  /\ nav_ret' = "raised"
  /\ nav_from' = "none"
  /\ IF stack[1].fn = "run_periodic_tasks"
     THEN stack' = <<[stack[1] EXCEPT !.label = "except"]>> /\ caught' = TRUE
     ELSE stack' = <<>> /\ caught' = caught

\* search_ruin_at_coordinate is the method the caller called
Searching == stack # <<>> /\ stack[1].fn = "search_ruin_at_coordinate"

\* the UI steps of the search, with one more
Log(step) == IF Searching THEN Append(steps, step) ELSE steps

\* the clicks of go_to_shipment_collect, with the click_element call that
\* now returns v to it
Noted(v) ==
  IF Len(stack) > 1 /\ stack[Len(stack) - 1].fn = "go_to_shipment_collect"
  THEN Append(outcomes, <<Top.arg, v>>)
  ELSE outcomes

\* the values of max_attempts a caller passes
AttemptChoices == {0, ExploreAttempts, 2, DefaultAttempts}

\* the methods a caller (a button of the GUI, basic_loop, another flow)
\* calls
NavMethods ==
  TableMethods \cup {"run_periodic_tasks", "is_in_city", "click_element"}

\* a caller calls a method
NavCall ==
  /\ stack = <<>>
  /\ \E fn \in NavMethods :
       /\ nav_call' = fn
       /\ CASE fn = "click_element" ->
                 \E name \in NavElements, max \in AttemptChoices :
                   stack' = <<Frame(fn, name, max)>>
            [] fn = "input_coordinate" ->
                 \E t \in CoordTypes : stack' = <<Frame(fn, t, 0)>>
            [] OTHER -> stack' = <<Frame(fn, "", 0)>>
  /\ nav_ret' = "none"
  /\ nav_from' = "none"
  /\ invoked' = <<>>
  /\ caught' = FALSE
  /\ click' = NoClick
  /\ steps' = <<>>
  /\ outcomes' = <<>>
  /\ UNCHANGED <<not_nav, last_reset>>

\* the top method calls another method
FlowCall ==
  /\ stack # <<>>
  /\ Top.fn \in TableMethods
  /\ LET i == Instr(Top.fn, Top.label, nav_ret) IN
       /\ i.op = "call"
       /\ stack' = Append(At(i.cont), Frame(i.callee, i.arg, i.max))
  /\ nav_ret' = "none"
  /\ nav_from' = "none"
  /\ UNCHANGED <<not_nav, last_reset, nav_call, invoked, caught, click,
                 steps, outcomes>>

\* "time.time()": a reading of the clock that differs from the reading
\* before it
Now(before) == IF before = 1 THEN 2 ELSE 1

\* the top method returns
FlowReturn ==
  /\ stack # <<>>
  /\ Top.fn \in TableMethods
  /\ LET i == Instr(Top.fn, Top.label, nav_ret) IN
       /\ i.op = "return"
       /\ Return(i.value)
       /\ last_reset' = IF i.stamp THEN Now(last_reset) ELSE last_reset
  /\ UNCHANGED <<not_nav, nav_call, invoked, caught, click, steps,
                 outcomes>>

\* the top method sends a shell command to the device: without a device
\* the call raises, with one it may; under a try the method returns False
FlowShell ==
  /\ stack # <<>>
  /\ Top.fn \in TableMethods
  /\ LET i == Instr(Top.fn, Top.label, nav_ret) IN
       /\ i.op = "shell"
       /\ steps' = Log(i.arg \o Top.arg)
       /\ \E raises \in (IF device THEN BOOLEAN ELSE {TRUE}) :
            IF ~raises THEN Goto(i.cont) /\ caught' = caught
            ELSE IF i.guarded THEN Return("False") /\ caught' = caught
            ELSE Throw
  /\ UNCHANGED <<not_nav, last_reset, nav_call, invoked, click, outcomes>>

\* is_in_city
IsInCity ==
  /\ stack # <<>>
  /\ Top.fn = "is_in_city"
  /\ IF ~device \/ "map_button" \notin config
     THEN Return("False") /\ caught' = caught
     ELSE IF "map_button" \in no_image_path THEN Throw
     ELSE /\ \E found \in Detect : Return(IF found THEN "True" ELSE "False")
          /\ caught' = caught
  /\ UNCHANGED <<not_nav, last_reset, nav_call, invoked, click, steps,
                 outcomes>>

\* click_element: "if not self.bot.device" and "if not element_config"
ClickEnter ==
  /\ stack # <<>>
  /\ Top.fn = "click_element"
  /\ Top.label = "enter"
  /\ click' = [NoClick EXCEPT !.name = Top.arg, !.max = Top.max]
  /\ IF ~device \/ Top.arg \notin config
     THEN Return("False") /\ outcomes' = Noted("False")
     ELSE Goto("detect") /\ outcomes' = outcomes
  /\ UNCHANGED <<not_nav, last_reset, nav_call, invoked, caught, steps>>

\* click_element: "for attempt in range(max_attempts)" and the detection;
\* after the last miss "return False"
ClickDetect ==
  /\ stack # <<>>
  /\ Top.fn = "click_element"
  /\ Top.label = "detect"
  /\ IF Top.n >= Top.max
     THEN /\ Return("False")
          /\ outcomes' = Noted("False")
          /\ UNCHANGED <<caught, click, steps>>
     ELSE IF Top.arg \in no_image_path
     THEN Throw /\ UNCHANGED <<click, steps, outcomes>>
     ELSE /\ \E found \in Detect :
               /\ click' = [click EXCEPT !.detections = @ + 1, !.hit = found]
               /\ stack' = IF found THEN At("tap")
                           ELSE [stack EXCEPT ![Len(stack)].n = @ + 1]
          /\ nav_ret' = "none"
          /\ nav_from' = "none"
          /\ steps' = Log("detect_" \o Top.arg)
          /\ caught' = caught
          /\ outcomes' = outcomes
  /\ UNCHANGED <<not_nav, last_reset, nav_call, invoked>>

\* click_element that tries again after a failed tap
ClickTap_retries ==
  /\ stack # <<>>
  /\ Top.fn = "click_element"
  /\ Top.label = "tap"
  /\ \E ok \in BOOLEAN :
       /\ click' = [click EXCEPT !.taps = @ + 1, !.tap_at = click.detections,
                                 !.tap_ok = ok]
       /\ IF ok THEN Return("True") /\ outcomes' = Noted("True")
          ELSE /\ stack' = [stack EXCEPT ![Len(stack)].n = @ + 1,
                                         ![Len(stack)].label = "detect"]
               /\ nav_ret' = "none"
               /\ nav_from' = "none"
               /\ outcomes' = outcomes
  /\ steps' = Log("tap_" \o Top.arg)
  /\ UNCHANGED <<not_nav, last_reset, nav_call, invoked, caught>>

\* click_element: "if self.bot.click_coordinate(adjusted_x, center_y):
\* return True else: return False"
ClickTap ==
  /\ stack # <<>>
  /\ Top.fn = "click_element"
  /\ Top.label = "tap"
  /\ \E ok \in BOOLEAN :
       /\ click' = [click EXCEPT !.taps = @ + 1, !.tap_at = click.detections,
                                 !.tap_ok = ok]
       /\ Return(IF ok THEN "True" ELSE "False")
       /\ outcomes' = Noted(IF ok THEN "True" ELSE "False")
  /\ steps' = Log("tap_" \o Top.arg)
  /\ UNCHANGED <<not_nav, last_reset, nav_call, invoked, caught>>

\* run_periodic_tasks: "for task_name, task_func in tasks" and
\* "result = task_func()"; after the last task the method returns None
PeriodicLoop ==
  /\ stack # <<>>
  /\ Top.fn = "run_periodic_tasks"
  /\ Top.label \in {"enter", "loop"}
  /\ IF Top.n < Len(Tasks)
     THEN /\ stack' = Append(At("called"), Frame(Tasks[Top.n + 1], "", 0))
          /\ invoked' = Append(invoked, Tasks[Top.n + 1])
          /\ nav_ret' = "none"
          /\ nav_from' = "none"
          /\ outcomes' = <<>>
     ELSE Return("None") /\ invoked' = invoked /\ outcomes' = outcomes
  /\ UNCHANGED <<not_nav, last_reset, nav_call, caught, click, steps>>

\* run_periodic_tasks: the task returned; "time.sleep(2)" and the next one
PeriodicNext ==
  /\ stack # <<>>
  /\ Top.fn = "run_periodic_tasks"
  /\ Top.label = "called"
  /\ stack' = [stack EXCEPT ![Len(stack)].n = @ + 1,
                            ![Len(stack)].label = "loop"]
  /\ nav_ret' = "none"
  /\ nav_from' = "none"
  /\ UNCHANGED <<not_nav, last_reset, nav_call, invoked, caught, click,
                 steps, outcomes>>

\* run_periodic_tasks whose handler ends the loop
PeriodicExcept_breaks ==
  /\ stack # <<>>
  /\ Top.fn = "run_periodic_tasks"
  /\ Top.label = "except"
  /\ Return("None")
  /\ UNCHANGED <<not_nav, last_reset, nav_call, invoked, caught, click,
                 steps, outcomes>>

\* run_periodic_tasks: "except Exception as e: ... continue"
PeriodicExcept ==
  /\ stack # <<>>
  /\ Top.fn = "run_periodic_tasks"
  /\ Top.label = "except"
  /\ stack' = [stack EXCEPT ![Len(stack)].n = @ + 1,
                            ![Len(stack)].label = "loop"]
  /\ nav_ret' = "none"
  /\ nav_from' = "none"
  /\ UNCHANGED <<not_nav, last_reset, nav_call, invoked, caught, click,
                 steps, outcomes>>

\* the configurations a navigation starts from: every element configured,
\* one element left out, and the empty configuration of a failed load
NavConfigs == {NavElements} \cup {NavElements \ {e} : e \in NavElements}
                \cup {{}}

\* the entries a hand-edited configuration may hold without image_path:
\* the element every flow looks up first, one in the middle of two tasks
\* and one at the end of a task
Malformed == {"map_button", "Castle", "ShipmentCollect"}

\* the state after "CityManager(bot)", for a bot with or without a device
\* and for a configuration of which at most one entry lacks its image_path
InitNav ==
  /\ device \in BOOLEAN
  /\ gui_detector \in BOOLEAN
  /\ config \in NavConfigs
  /\ no_image_path \in {{}} \cup {{e} : e \in config \cap Malformed}
  /\ last_reset = 0
  /\ disk = <<>>
  /\ FlowIdle
  /\ BotIdle
  /\ NavIdle
  /\ GuiIdle

NextNav ==
  \/ NavCall
  \/ FlowCall
  \/ FlowReturn
  \/ FlowShell
  \/ IsInCity
  \/ ClickEnter
  \/ ClickDetect
  \/ ClickTap
  \/ PeriodicLoop
  \/ PeriodicNext
  \/ PeriodicExcept

SpecNav == InitNav /\ [][NextNav]_vars

(***************************************************************************)
(* MinimalBotGUI: the buttons and the worker threads they start.  Here a    *)
(* thread is known by the method it runs; what the method does on the       *)
(* device is in the other specifications.                                   *)
(***************************************************************************)
\* the most worker threads alive at once
MaxThreads == 2

\* the buttons that start a thread for one method of CityManager
ButtonKinds ==
  ThreadKinds \ {"basic_loop:while", "basic_loop:flow", "basic_loop:wait"}

RECURSIVE Total(_, _)
\* the sum of the numbers f gives the members of S
Total(f, S) ==
  IF S = {} THEN 0
  ELSE LET k == CHOOSE x \in S : TRUE IN f[k] + Total(f, S \ {k})

\* the worker threads alive
Alive == Total(threads, ThreadKinds)

\* the worker threads inside a method of CityManager
Executing ==
  Alive - threads["basic_loop:while"] - threads["basic_loop:wait"]

\* what the buttons and the threads leave alone
not_gui == <<device, gui_detector, config, last_reset, flow_vars, bot_vars,
             nav_vars>>

\* "threading.Thread(target=..., daemon=True).start()"
Spawn(kind) ==
  /\ Alive < MaxThreads
  /\ threads' = [threads EXCEPT ![kind] = @ + 1]
  /\ overlap' = (overlap \/ Alive > 0)

\* a thread goes from one place to another
Move(from, to) ==
  /\ threads[from] > 0
  /\ threads' = [threads EXCEPT ![from] = @ - 1, ![to] = @ + 1]

\* a thread ends
Exit(kind) ==
  /\ threads[kind] > 0
  /\ threads' = [threads EXCEPT ![kind] = @ - 1]

\* start_bot that leaves the Start button enabled
StartBot_stays_enabled ==
  /\ start_enabled
  /\ device
  /\ is_running' = TRUE
  /\ start_enabled' = TRUE
  /\ Spawn("basic_loop:while")
  /\ UNCHANGED <<not_gui, loop_pc, waited>>

\* start_bot, pressed with a device: the flag, the two buttons, the thread
StartBot ==
  /\ start_enabled
  /\ device
  /\ is_running' = TRUE
  /\ start_enabled' = FALSE
  /\ Spawn("basic_loop:while")
  /\ UNCHANGED <<not_gui, loop_pc, waited>>

\* stop_bot, which the Stop button runs when it is enabled
StopBot ==
  /\ ~start_enabled
  /\ is_running' = FALSE
  /\ start_enabled' = TRUE
  /\ UNCHANGED <<not_gui, loop_pc, waited, threads, overlap>>

\* explore_ruins, run_periodic_tasks, go_to_research and the other
\* handlers of this shape: "if not self.bot.device: return" and the start
\* of a thread
PressButton(kind) ==
  /\ device
  /\ Spawn(kind)
  /\ UNCHANGED <<not_gui, is_running, start_enabled, loop_pc, waited>>

\* the thread of a button ends: its method returned, or raised into the
\* handler of the thread
ThreadEnds(kind) ==
  /\ Exit(kind)
  /\ UNCHANGED <<not_gui, is_running, start_enabled, loop_pc, waited,
                 overlap>>

\* basic_loop: "while self.bot.is_running", then the game check and the
\* call of explore_ruins_flow
ThreadWhile ==
  /\ IF is_running THEN Move("basic_loop:while", "basic_loop:flow")
     ELSE Exit("basic_loop:while")
  /\ UNCHANGED <<not_gui, is_running, start_enabled, loop_pc, waited,
                 overlap>>

\* basic_loop: explore_ruins_flow returns and the wait begins, or it
\* raises and "except ... break" ends the thread
ThreadFlowEnds ==
  /\ \E raised \in BOOLEAN :
       IF raised THEN Exit("basic_loop:flow")
       ELSE Move("basic_loop:flow", "basic_loop:wait")
  /\ UNCHANGED <<not_gui, is_running, start_enabled, loop_pc, waited,
                 overlap>>

\* basic_loop: the wait ends, after its seconds or at the stop flag
ThreadWaitEnds ==
  /\ Move("basic_loop:wait", "basic_loop:while")
  /\ UNCHANGED <<not_gui, is_running, start_enabled, loop_pc, waited,
                 overlap>>

\* the window after setup_gui, with or without a connected device
InitGui ==
  /\ device \in BOOLEAN
  /\ gui_detector = device
  /\ config = Elements
  /\ last_reset = 0
  /\ disk = <<>>
  /\ FlowIdle
  /\ BotIdle
  /\ no_image_path = {}
  /\ NavIdle
  /\ GuiIdle

NextGui ==
  \/ StartBot
  \/ StopBot
  \/ \E kind \in ButtonKinds : PressButton(kind)
  \/ \E kind \in ButtonKinds : ThreadEnds(kind)
  \/ ThreadWhile
  \/ ThreadFlowEnds
  \/ ThreadWaitEnds

SpecGui == InitGui /\ [][NextGui]_vars

(***************************************************************************)
(* basic_loop with explore_ruins_flow inside: one bot-loop worker, whose    *)
(* flow is the flow modelled above, and the Start and Stop buttons.  Start  *)
(* is pressed again only after the worker has ended.                        *)
(***************************************************************************)
\* "for i in range(30)" of the wait of basic_loop
WaitSeconds == 30

\* start_bot with no worker alive
LoopStart ==
  /\ start_enabled
  /\ device
  /\ loop_pc = "none"
  /\ is_running' = TRUE
  /\ start_enabled' = FALSE
  /\ loop_pc' = "while"
  /\ UNCHANGED <<not_gui, waited, threads, overlap>>

\* stop_bot
LoopStop ==
  /\ ~start_enabled
  /\ is_running' = FALSE
  /\ start_enabled' = TRUE
  /\ UNCHANGED <<not_gui, loop_pc, waited, threads, overlap>>

\* "while True": a loop head that does not read the flag
LoopWhile_ignores_flag ==
  /\ loop_pc = "while"
  /\ loop_pc' = "game"
  /\ UNCHANGED <<not_gui, is_running, start_enabled, waited, threads,
                 overlap>>

\* "while self.bot.is_running": the only test of the flag outside the wait
LoopWhile ==
  /\ loop_pc = "while"
  /\ loop_pc' = IF is_running THEN "game" ELSE "none"
  /\ UNCHANGED <<not_gui, is_running, start_enabled, waited, threads,
                 overlap>>

\* "if not self.bot.is_game_running(...): self.bot.launch_game(...)" and
\* the call "self.city_manager.explore_ruins_flow()"
LoopCallFlow ==
  /\ loop_pc = "game"
  /\ pc = "idle"
  /\ loop_pc' = "flow"
  /\ \E started \in BOOLEAN : game_running' = (game_running \/ started)
  /\ EnterFlow
  /\ UNCHANGED <<device, gui_detector, config, last_reset, disk,
                 count_locals, last_failed, nav_vars, bot_pc, bot_ret,
                 last_call, obtained, echoed, screencaps, starts, checks,
                 is_running, start_enabled, waited, threads, overlap,
                 other>>

\* the frame of explore_ruins_flow is gone: its locals, its value and the
\* history of the run
LeaveFlow ==
  /\ result' = "none"
  /\ available_marches' = 0
  /\ explored_ruins' = <<>>
  /\ marches_used' = 0
  /\ total_explored' = 0
  /\ level' = 1
  /\ area' = 1
  /\ idx' = 1
  /\ probe_result' = FALSE
  /\ loaded' = <<>>
  /\ probed' = <<>>
  /\ last_failed' = NoKey
  /\ tapped' = FALSE
  /\ writes' = 0
  /\ home_click' = "none"

\* explore_ruins_flow is over: its value is dropped and the wait begins,
\* or it raised and "except Exception ... break" ends the loop
LoopFlowReturns ==
  /\ loop_pc = "flow"
  /\ pc = "idle"
  /\ loop_pc' = IF result = "raised" THEN "none" ELSE "wait"
  /\ waited' = 0
  /\ LeaveFlow
  /\ UNCHANGED <<device, gui_detector, config, last_reset, bot_vars,
                 nav_vars, other, disk, pc, count_locals, is_running,
                 start_enabled, threads, overlap>>

\* "for i in range(30): if not self.bot.is_running: break; time.sleep(1)"
LoopWait ==
  /\ loop_pc = "wait"
  /\ IF waited < WaitSeconds /\ is_running
     THEN waited' = waited + 1 /\ loop_pc' = loop_pc
     ELSE waited' = 0 /\ loop_pc' = "while"
  /\ UNCHANGED <<not_gui, is_running, start_enabled, threads, overlap>>

\* the window after setup_gui with a connected device
InitLoop ==
  /\ device = TRUE
  /\ gui_detector \in BOOLEAN
  /\ config \in Configs
  /\ last_reset = 0
  /\ disk \in InitDisks
  /\ FlowIdle
  /\ BotIdle
  /\ no_image_path = {}
  /\ NavIdle
  /\ GuiIdle

NextLoop ==
  \/ LoopStart
  \/ LoopStop
  \/ LoopWhile
  \/ LoopCallFlow
  \/ LoopFlowReturns
  \/ LoopWait
  \/ FlowCount
  \/ FlowBudget
  \/ FlowLoad
  \/ LevelLoop
  \/ AreaLoop
  \/ CoordLoop
  \/ \E t \in CoordTypes : InputCoordinate(t)
  \/ TapSearch
  \/ ClickExplore
  \/ MarkExplored
  \/ ReturnHome

SpecLoop == InitLoop /\ [][NextLoop]_vars

\* the steps of the worker thread of basic_loop: the interpreter goes on
\* running a thread that can run, and every call of the device returns or
\* raises
WorkerStep ==
  \/ LoopWhile
  \/ LoopCallFlow
  \/ LoopFlowReturns
  \/ LoopWait
  \/ FlowCount
  \/ FlowBudget
  \/ FlowLoad
  \/ LevelLoop
  \/ AreaLoop
  \/ CoordLoop
  \/ \E t \in CoordTypes : InputCoordinate(t)
  \/ TapSearch
  \/ ClickExplore
  \/ MarkExplored
  \/ ReturnHome

\* the window with a connected device, a detector and every element
\* configured; no file, or a file with a foreign key and an explored
\* coordinate, or one with a key stored twice
InitLive ==
  /\ device = TRUE
  /\ gui_detector = TRUE
  /\ config = Elements
  /\ last_reset = 0
  /\ disk \in InitDisks \ {<<SecondKey>>, <<ForeignKey>>}
  /\ FlowIdle
  /\ BotIdle
  /\ no_image_path = {}
  /\ NavIdle
  /\ GuiIdle

\* the bot loop with a worker thread that keeps running; the presses of
\* the buttons are left to the user
SpecLive == InitLive /\ [][NextLoop]_vars /\ WF_vars(WorkerStep)

(***************************************************************************)
(* Two threads in explore_ruins_flow.  No handler of the window tests for  *)
(* a running thread, so the flow can be entered by a second thread (the    *)
(* bot loop and the Explore Ruins button, or two presses of the button)    *)
(* while a first one is in it.  The thread that runs has its locals in     *)
(* the variables of the flow; the locals of the thread that waits are the  *)
(* record other.  The threads share the file and the device.  Threads are  *)
(* switched before the flow is entered, before the file is loaded and at   *)
(* the head of the coordinate loop, that is between the statements that    *)
(* read or write the file.                                                 *)
(***************************************************************************)
\* the locals and history of the thread that runs
ThisFrame ==
  [pc |-> pc, found_march1 |-> found_march1, found_march2 |-> found_march2,
   march_count |-> march_count, available_marches |-> available_marches,
   explored_ruins |-> explored_ruins, marches_used |-> marches_used,
   total_explored |-> total_explored, level |-> level, area |-> area,
   idx |-> idx, probe_result |-> probe_result, result |-> result,
   loaded |-> loaded, probed |-> probed, last_failed |-> last_failed,
   tapped |-> tapped, writes |-> writes, home_click |-> home_click]

\* where the running thread can be when the other thread gets to run
SwitchPoints == {"idle", "load", "coord"}

\* "threading.Thread(target=self._explore_ruins, daemon=True).start()" or
\* the call in basic_loop: a thread that has not run the flow enters it
RaceStart ==
  /\ pc = "idle"
  /\ result = "none"
  /\ device
  /\ EnterFlow
  /\ overlap' = (overlap \/ other.pc # "idle")
  /\ UNCHANGED <<device, gui_detector, config, last_reset, bot_vars,
                 nav_vars, is_running, start_enabled, loop_pc, waited,
                 threads, other, disk, count_locals, last_failed>>

\* the interpreter lets the other thread run
Switch ==
  /\ pc \in SwitchPoints
  /\ other' = ThisFrame
  /\ pc' = other.pc
  /\ found_march1' = other.found_march1
  /\ found_march2' = other.found_march2
  /\ march_count' = other.march_count
  /\ available_marches' = other.available_marches
  /\ explored_ruins' = other.explored_ruins
  /\ marches_used' = other.marches_used
  /\ total_explored' = other.total_explored
  /\ level' = other.level
  /\ area' = other.area
  /\ idx' = other.idx
  /\ probe_result' = other.probe_result
  /\ result' = other.result
  /\ loaded' = other.loaded
  /\ probed' = other.probed
  /\ last_failed' = other.last_failed
  /\ tapped' = other.tapped
  /\ writes' = other.writes
  /\ home_click' = other.home_click
  /\ UNCHANGED <<device, gui_detector, config, last_reset, bot_vars,
                 nav_vars, gui_vars, disk>>

\* the window with a connected device and no thread started
InitRace ==
  /\ device = TRUE
  /\ gui_detector = TRUE
  /\ config = Elements
  /\ last_reset = 0
  /\ disk \in InitDisks
  /\ FlowIdle
  /\ BotIdle
  /\ no_image_path = {}
  /\ NavIdle
  /\ GuiIdle

NextRace ==
  \/ RaceStart
  \/ Switch
  \/ FlowCount
  \/ FlowBudget
  \/ FlowLoad
  \/ LevelLoop
  \/ AreaLoop
  \/ CoordLoop
  \/ \E t \in CoordTypes : InputCoordinate(t)
  \/ TapSearch
  \/ ClickExplore
  \/ MarkExplored
  \/ ReturnHome

SpecRace == InitRace /\ [][NextRace]_vars

(***************************************************************************)
(* Definitions the properties share                                          *)
(***************************************************************************)
\* search_ruin_at_coordinate is running
ProbePcs == {"input_X", "input_Y", "tap_search", "click_explore"}

\* count_available_marches has just returned
CountedPcs == {"counted", "checked"}

\* the keys of the walk, in its order
CatalogKeySeq == [i \in 1..Len(CatalogOrder) |-> coord_key(CatalogOrder[i])]

\* the place of each key in the walk
PosOf ==
  [key \in Range(CatalogKeySeq) |->
     CHOOSE i \in 1..Len(CatalogKeySeq) : CatalogKeySeq[i] = key]

\* the place of a key in the walk
Pos(key) == PosOf[key]

\* all of a sequence but its last element
Front(s) == SubSeq(s, 1, Len(s) - 1)

TypeOK ==
  /\ device \in BOOLEAN /\ gui_detector \in BOOLEAN
  /\ config \subseteq Elements
  /\ available_marches \in 0..2
  /\ marches_used \in 0..2
  /\ result \in {"none", "True", "False", "raised"}
  /\ pc \in ProbePcs \cup CountedPcs \cup
       {"idle", "check", "count", "load", "level", "area", "coord",
        "probe_ret", "home"}

(***************************************************************************)
(* Properties                                                                *)
(***************************************************************************)
\* C1: a run never probes a coordinate whose key is in the list it loaded,
\* and never probes one coordinate twice
C1_NeverReprobes ==
  /\ Range(probed) \cap Range(loaded) = {}
  /\ Cardinality(Range(probed)) = Len(probed)

\* a run that loaded the second coordinate as explored has probed the
\* coordinates before and after it
C1_Witness ==
  /\ SecondKey \in Range(loaded)
  /\ Len(probed) >= 2
  /\ Pos(probed[1]) < Pos(SecondKey)
  /\ Pos(probed[2]) > Pos(SecondKey)

C3_BudgetRespected ==
  [][/\ marches_used' <= available_marches'
     /\ pc' \in ProbePcs => marches_used' < available_marches'
     /\ marches_used' > marches_used =>
          /\ pc = "probe_ret"
          /\ probe_result
          /\ marches_used' = marches_used + 1
    ]_vars

\* a run with budget 2 has used both marches
C3_Witness ==
  /\ available_marches = 2
  /\ marches_used = 2
  /\ pc = "home"

\* C4: once count_available_marches has returned 0 the flow has returned
\* False without a probe, a write of the file or a tap
C4_ZeroBudget ==
  (available_marches = 0 /\ pc \notin {"count", "counted"}) =>
    /\ pc \in {"idle", "check", "checked"}
    /\ result \in {"none", "False"}
    /\ probed = <<>>
    /\ writes = 0
    /\ ~tapped

\* a flow has ended on a budget of 0 with a device connected
C4_Witness ==
  /\ pc = "idle"
  /\ result = "False"
  /\ available_marches = 0
  /\ device

\* C5: with both indicators configured the value returned is 2 less one for
\* each indicator that is not detected
C5_AbsentIndicatorReduces ==
  (pc \in CountedPcs /\ device /\ {"MarchNb1", "MarchNb2"} \subseteq config) =>
    march_count = 2 - (IF found_march1 THEN 0 ELSE 1)
                    - (IF found_march2 THEN 0 ELSE 1)

\* C6: the value returned is 0, 1 or 2, and 0 without a device
C6_CountInRange ==
  pc \in CountedPcs =>
    /\ march_count \in {0, 1, 2}
    /\ ~device => march_count = 0

\* the call returned 0 for want of a device though a detector is set
C6_Witness ==
  /\ pc = "counted"
  /\ ~device
  /\ gui_detector
  /\ march_count = 0

\* C7: the step that runs count_available_marches issues no tap or text
\* input and leaves the explored list in memory and on disk, the
\* configuration and last_reset as they were
C7_CountIsPureRead ==
  [][(pc \in {"count", "check"}) =>
       (/\ pc' \in CountedPcs
        /\ tapped' = tapped
        /\ ~tapped'
        /\ UNCHANGED <<explored_ruins, disk, config, last_reset>>)
    ]_vars

\* a call found one indicator and has issued no tap
C7_Witness ==
  /\ pc \in CountedPcs
  /\ found_march1
  /\ ~found_march2
  /\ march_count = 1
  /\ ~tapped

\* C8: a flow that started from an empty explored list with budget B >= 1
\* and returned has between B and the catalog's length entries in its list
C8_ExploredBounds ==
  (pc = "idle" /\ result \in {"True", "False"} /\ available_marches >= 1
     /\ loaded = <<>>) =>
    /\ Len(explored_ruins) >= available_marches
    /\ Len(explored_ruins) <= Len(CatalogOrder)

\* such a flow used its budget of 2 after probes that failed
C8_Witness ==
  /\ pc = "idle"
  /\ result = "True"
  /\ available_marches = 2
  /\ loaded = <<>>
  /\ Len(explored_ruins) > 2
  /\ Len(explored_ruins) < Len(CatalogOrder)

\* C9: the probes of a run follow the order of the catalog (each probe is
\* of a later coordinate than the one before it), and every coordinate
\* before a probed one was in the loaded list or was probed; the latter is
\* stated of the last probe, whose predecessors include those of the others
C9_CatalogOrder ==
  /\ \A i \in 1..(Len(probed) - 1) : Pos(probed[i]) < Pos(probed[i + 1])
  /\ probed # <<>> =>
       {CatalogKeySeq[p] : p \in 1..(Pos(probed[Len(probed)]) - 1)}
         \subseteq Range(loaded) \cup Range(probed)

\* one run has probed every coordinate of the walk
C9_Witness == Len(probed) = Len(CatalogOrder)

TableCoordinates_repeated ==
  <<RuinCoordinates[1].areas[1].coordinates[1]>> \o
  Flatten([l \in DOMAIN RuinCoordinates |->
    Flatten([a \in DOMAIN RuinCoordinates[l].areas |->
      RuinCoordinates[l].areas[a].coordinates])])

\* every pair the table lists, level by level and area by area
TableCoordinates ==
  Flatten([l \in DOMAIN RuinCoordinates |->
    Flatten([a \in DOMAIN RuinCoordinates[l].areas |->
      RuinCoordinates[l].areas[a].coordinates])])

\* the pairs of the table, as a set
TablePairs == Range(TableCoordinates)

\* C15: no failure escapes explore_ruins_flow as an exception, and the
\* coordinate whose probe failed is recorded: a run never ends by raising,
\* and once a run that probed is over its last probed key is on disk
C15_FailuresReturnFalse ==
  /\ result # "raised"
  /\ (pc = "idle" /\ probed # <<>>) => probed[Len(probed)] \in Range(disk)

\* C18: every (x, y) pair of the static table occurs exactly once over all
\* levels and areas, and so does the pair the flow is probing
C18_EachPairOnce ==
  /\ Cardinality(TablePairs) = Len(TableCoordinates)
  /\ pc = "input_X" =>
       Cardinality({i \in DOMAIN TableCoordinates :
                      TableCoordinates[i] = CurrentCoord}) = 1

\* the flow probes a pair of a table of several levels, each of several areas
C18_Witness ==
  /\ pc = "input_X"
  /\ CurrentCoord \in Range(TableCoordinates)
  /\ Len(RuinCoordinates) > 1
  /\ \A l \in DOMAIN RuinCoordinates : Len(RuinCoordinates[l].areas) > 1
\* C19: connect_device returns (True, message) only if a device was
\* obtained and answered 'echo test', and then bot.device and
\* bot.gui_detector are both set; in every case what it returns is a pair
\* with a message, and no exception leaves it
C19_ConnectContract ==
  (bot_pc = "idle" /\ last_call = "connect_device") =>
    /\ bot_ret.kind = "message"
    /\ bot_ret.ok => (obtained /\ echoed /\ device /\ gui_detector)
    /\ ~(obtained /\ echoed) => ~bot_ret.ok

\* connect_device has returned (True, message)
C19_Witness ==
  /\ bot_pc = "idle"
  /\ last_call = "connect_device"
  /\ bot_ret = Message(TRUE)

\* C20: detect_ui_element never raises; with found True its result is a
\* coordinate pair, with found False it is None or an error string, and
\* with no gui_detector it is (False, None) and no screen was captured
C20_DetectContract ==
  (bot_pc = "idle" /\ last_call = "detect_ui_element") =>
    /\ bot_ret.kind # "raised"
    /\ bot_ret.ok => bot_ret.kind = "pair"
    /\ ~bot_ret.ok => bot_ret.kind \in {"None", "error"}
    /\ ~gui_detector => (bot_ret = NotFound /\ screencaps = 0)

\* detect_ui_element has returned (True, (12, 21)) after one capture
C20_Witness ==
  /\ bot_pc = "idle"
  /\ last_call = "detect_ui_element"
  /\ bot_ret = Center(<<10, 20>>, <<3, 5>>)
  /\ screencaps = 1

\* the detections of a found-ruin result image, by the names the code gives
\* the variants of that image
RuinDetections ==
  {"detect_" \o v :
     v \in {"foundRuin6", "foundRuin4", "foundRuin5", "foundRuin3",
            "1231d12d"}}

\* C11: search_ruin_at_coordinate types X, types Y, taps search, detects a
\* found-ruin result image and taps the explore button, in this order, and
\* returns True only after the detection and the tap
C11_SearchSteps ==
  (stack = <<>> /\ nav_call = "search_ruin_at_coordinate" /\ nav_ret = "True")
    => \E x, y, s, d, t \in DOMAIN steps :
         /\ x < y /\ y < s /\ s < d /\ d < t
         /\ steps[x] = "typeX"
         /\ steps[y] = "typeY"
         /\ steps[s] = "tap_search"
         /\ steps[d] \in RuinDetections
         /\ steps[t] = "tap_exploreNew"

\* a click_element call of a navigation flow has just returned False
ClickFailed ==
  /\ stack # <<>>
  /\ Top.fn \in NavFlows
  /\ nav_from = "click_element"
  /\ nav_ret = "False"

\* the flow on top returns False as its next step
Aborts ==
  /\ stack' = Pop
  /\ nav_ret' = "False"
  /\ nav_from' = Top.fn

\* the clicks of go_to_shipment_collect whose failure the flow passes over
Tolerated ==
  {"GoldPickup", "ShipmentCollect", "ShipmentClaim", "ShipmentContinue",
   "BackButton"}

\* the failed click is one the flow gives up on at once
Required ==
  /\ ~(Top.fn = "go_to_shipment_collect" /\ click.name \in Tolerated)
  /\ ~(Top.fn = "go_to_research_area" /\ Top.label = "castle1")

\* C12 as stated: in each navigation flow a failed click_element step is
\* followed at once by the return of False, with no further UI step
C12_AnyFailedClickAborts ==
  [][ClickFailed => Aborts]_vars

\* C12 as the code has it: a failed click makes the flow return False at
\* once, except that go_to_research_area calls reset_to_city after its
\* first failed Castle click and then returns False, that
\* go_to_shipment_collect goes on after a failed GoldPickup, ShipmentClaim
\* or ShipmentContinue click and clicks BackButton after a failed
\* ShipmentCollect click, and that a failed BackButton click leaves the
\* result of go_to_shipment_collect as it was
C12_RequiredClickAborts ==
  [][/\ (ClickFailed /\ Required) => Aborts
     /\ (ClickFailed /\ Top.fn = "go_to_research_area"
           /\ Top.label = "castle1")
          => stack' = Append(At("reset"), Frame("reset_to_city", "", 0))
     /\ (stack # <<>> /\ Top.fn = "go_to_research_area"
           /\ nav_from = "reset_to_city" /\ Top.label = "reset") => Aborts
     /\ (ClickFailed /\ Top.fn = "go_to_shipment_collect"
           /\ click.name \in Tolerated \ {"BackButton"})
          => /\ Len(stack') = Len(stack) + 1
             /\ stack'[Len(stack')].fn = "click_element"
             /\ stack'[Len(stack')].arg =
                  (IF click.name = "GoldPickup" THEN "DwelingArea"
                   ELSE "BackButton")
     /\ (ClickFailed /\ Top.fn = "go_to_shipment_collect"
           /\ click.name = "BackButton")
          => /\ stack' = Pop
             /\ nav_ret' = (IF Top.label = "back" THEN "True" ELSE "False")
    ]_vars

\* the Castle click of go_to_dragon_panel has failed after four misses
C12_Witness ==
  /\ ClickFailed
  /\ Top.fn = "go_to_dragon_panel"
  /\ click.name = "Castle"
  /\ click.detections = DefaultAttempts
  /\ last_reset = 1

\* C13: run_periodic_tasks calls go_to_shipment_collect,
\* go_to_research_area and go_to_dragon_panel once each in this order,
\* whatever they return or raise, and then returns without raising
C13_AllTasksOnce ==
  nav_call = "run_periodic_tasks" =>
    /\ Len(invoked) <= Len(Tasks)
    /\ invoked = SubSeq(Tasks, 1, Len(invoked))
    /\ stack = <<>> => (invoked = Tasks /\ nav_ret = "None")

\* run_periodic_tasks has returned after a task raised and a reset succeeded
C13_Witness ==
  /\ nav_call = "run_periodic_tasks"
  /\ stack = <<>>
  /\ caught
  /\ last_reset = 1
  /\ invoked = Tasks

\* C14: one call of click_element makes at most max_attempts detections and
\* at most one tap, no detection follows the tap, True is returned only
\* after a detection that found the element and a tap that succeeded, a
\* failed tap gives False, and without a find the call gives False after
\* max_attempts detections (after none without a device or an entry)
C14_ClickContract ==
  /\ click.detections <= click.max
  /\ click.taps <= 1
  /\ click.taps = 1 => (click.hit /\ click.detections = click.tap_at)
  /\ nav_from = "click_element" =>
       /\ nav_ret \in {"True", "False"}
       /\ nav_ret = "True" => (click.hit /\ click.taps = 1 /\ click.tap_ok)
       /\ (click.taps = 1 /\ ~click.tap_ok) => nav_ret = "False"
       /\ ~click.hit =>
            /\ nav_ret = "False"
            /\ click.taps = 0
            /\ click.detections =
                 (IF device /\ click.name \in config THEN click.max ELSE 0)

\* a click_element call of four attempts found its element at the third
\* detection and returned False because the tap failed
C14_Witness ==
  /\ nav_from = "click_element"
  /\ nav_ret = "False"
  /\ click.max = DefaultAttempts
  /\ click.detections = 3
  /\ click.taps = 1
  /\ ~click.tap_ok

C17_StopHaltsFlow ==
  [][(loop_pc = "flow" /\ ~is_running /\ pc = "coord") => pc' # "input_X"]_vars

\* C21: launch_game without a device returns failure and sends no shell
\* command.  With a device it asks is_game_running first: when that
\* answers True it returns success and the start command is not sent;
\* otherwise the start command is sent once, and launch_game returns
\* success exactly when is_game_running answers True after it (a start
\* command that raises is followed by no question and by failure).
C21_LaunchContract ==
  (last_call = "launch_game") =>
    /\ starts <= 1
    /\ Len(checks) <= 2
    /\ (checks = <<>>) => (starts = 0)
    /\ (bot_pc = "idle" /\ ~device) =>
         (~bot_ret.ok /\ starts = 0 /\ checks = <<>>)
    /\ (bot_pc = "idle" /\ device) =>
         /\ checks # <<>>
         /\ IF checks[1]
            THEN bot_ret.ok /\ starts = 0 /\ Len(checks) = 1
            ELSE /\ starts = 1
                 /\ bot_ret.ok <=> (Len(checks) = 2 /\ checks[2])

\* launch_game found the game not running, sent the start command and
\* returned success after is_game_running answered True
C21_Witness ==
  /\ last_call = "launch_game"
  /\ bot_pc = "idle"
  /\ device
  /\ checks = <<FALSE, TRUE>>
  /\ starts = 1
  /\ bot_ret.ok

\* both threads have run the flow to a return, and one entered it while
\* the other was in it
BothReturned ==
  /\ overlap
  /\ pc = "idle" /\ result \in {"True", "False"}
  /\ other.pc = "idle" /\ other.result \in {"True", "False"}

\* C22: after two overlapping executions of explore_ruins_flow have both
\* returned, the persisted list holds every coordinate either of them
\* attempted, and no coordinate was probed by both.
C22_OverlapKeepsAll ==
  BothReturned =>
    /\ (Range(probed) \cup Range(other.probed)) \subseteq Range(disk)
    /\ Range(probed) \cap Range(other.probed) = {}

\* the threads of basic_loop alive
LoopWorkers ==
  threads["basic_loop:while"] + threads["basic_loop:flow"]
    + threads["basic_loop:wait"]

\* C23: whatever start_bot and stop_bot calls are made, at most one
\* basic_loop worker thread is alive at any time.
C23_OneLoopWorker == LoopWorkers <= 1

\* C24: explore_ruins_flow, once entered, returns or raises, whatever the
\* budget, the list on disk and the outcomes of the probes, having probed
\* no coordinate twice and only coordinates of the table; and after
\* stop_bot the worker of basic_loop ends, unless start_bot is called
\* again.
C24_Terminates ==
  /\ (pc # "idle") ~> (pc = "idle")
  /\ [](/\ Cardinality(Range(probed)) = Len(probed)
        /\ Range(probed) \subseteq Range(CatalogKeySeq))
  /\ (~is_running /\ loop_pc # "none") ~> (loop_pc = "none" \/ is_running)

\* the worker is inside the flow, at a probe, after stop_bot
C24_Witness ==
  /\ ~is_running
  /\ loop_pc = "flow"
  /\ pc = "click_explore"
  /\ Len(probed) = 2

\* a list without a key stored twice
NoDuplicate(list) == Cardinality(Range(list)) = Len(list)

C26_ReturnValue ==
  [][/\ (pc' = "idle" /\ result' \in {"True", "False"}) =>
          /\ (result' = "True") <=> (marches_used' > 0)
          /\ (home_click' # "none") <=> (available_marches' >= 1)
     /\ (pc' \notin {"idle", "check", "checked"}) => (home_click' = "none")
     /\ (home_click' # home_click /\ home_click' # "none") =>
          (pc = "home" /\ home_click = "none" /\ pc' = "idle")
     /\ (marches_used' > marches_used) =>
          (pc = "probe_ret" /\ probe_result
           /\ marches_used' = marches_used + 1)]_vars

\* a run returned True although its home_button click failed
C26_Witness ==
  /\ pc = "idle"
  /\ result = "True"
  /\ marches_used > 0
  /\ home_click = "False"

\* the method fn calls the method callee in this step
NavCalls(fn, callee) ==
  /\ stack # <<>>
  /\ Top.fn = fn
  /\ Len(stack') = Len(stack) + 1
  /\ stack'[Len(stack')].fn = callee

\* the method fn returns the value v in this step
NavReturns(fn, v) ==
  /\ stack # <<>>
  /\ Top.fn = fn
  /\ Len(stack') < Len(stack)
  /\ nav_from' = fn
  /\ nav_ret' = v

\* the last click_element call was for name and tapped it with success
Clicked(name) ==
  /\ click.name = name
  /\ click.hit
  /\ click.taps = 1
  /\ click.tap_ok

\* C27: reset_to_city clicks home_button only after its click on
\* map_button returned True, calls is_in_city only after its click on
\* home_button returned True, and returns True only after that is_in_city
\* returned True; last_reset changes only in the step in which
\* reset_to_city returns True.
C27_ResetContract ==
  [][/\ (NavCalls("reset_to_city", "click_element")
         /\ stack'[Len(stack')].arg = "home_button") =>
          (nav_from = "click_element" /\ nav_ret = "True"
           /\ Clicked("map_button"))
     /\ NavCalls("reset_to_city", "is_in_city") =>
          (nav_from = "click_element" /\ nav_ret = "True"
           /\ Clicked("home_button"))
     /\ NavReturns("reset_to_city", "True") =>
          (nav_from = "is_in_city" /\ nav_ret = "True"
           /\ Clicked("home_button") /\ last_reset' # last_reset)
     /\ (last_reset' # last_reset) => NavReturns("reset_to_city", "True")]_vars

\* reset_to_city has just returned True for the second time
C27_Witness ==
  /\ nav_from = "reset_to_city"
  /\ nav_ret = "True"
  /\ last_reset = 2
  /\ Clicked("home_button")

\* C28: ensure_in_city calls is_in_city first; when that returns True it
\* returns True at once, and a caller that called it directly has seen no
\* click_element call and so no tap; when it returns False it calls
\* reset_to_city, once, and returns what reset_to_city returned.
C28_EnsureContract ==
  [][(stack # <<>> /\ Top.fn = "ensure_in_city") =>
       CASE nav_from = "none" -> NavCalls("ensure_in_city", "is_in_city")
         [] nav_from = "is_in_city" ->
              IF nav_ret = "True"
              THEN /\ NavReturns("ensure_in_city", "True")
                   /\ (nav_call = "ensure_in_city") => (click = NoClick)
              ELSE /\ nav_ret = "False"
                   /\ NavCalls("ensure_in_city", "reset_to_city")
         [] nav_from = "reset_to_city" ->
              /\ nav_ret \in {"True", "False"}
              /\ NavReturns("ensure_in_city", nav_ret)
         [] OTHER -> FALSE]_vars

\* ensure_in_city, called in the city, has returned True and nothing was
\* clicked
C28_Witness ==
  /\ nav_call = "ensure_in_city"
  /\ stack = <<>>
  /\ nav_from = "ensure_in_city"
  /\ nav_ret = "True"
  /\ click = NoClick

\* the click_element calls of go_to_shipment_collect for name
Attempts(name) == {i \in DOMAIN outcomes : outcomes[i][1] = name}

\* a click_element call of go_to_shipment_collect for name returned True
Succeeded(name) == <<name, "True">> \in Range(outcomes)

\* C29: go_to_shipment_collect clicks BackButton at most once; a call that
\* returns after its WareHouse click succeeded has attempted the
\* BackButton click exactly once, as its last click, whether the
\* ShipmentCollect click succeeded or not, and a call that returns without
\* that success has not attempted it; the value returned is True exactly
\* when the ShipmentCollect click succeeded, whatever the GoldPickup,
\* ShipmentClaim, ShipmentContinue and BackButton clicks returned.
C29_ShipmentContract ==
  /\ Cardinality(Attempts("BackButton")) <= 1
  /\ Cardinality(Attempts("ShipmentCollect")) <= 1
  /\ (nav_from = "go_to_shipment_collect" /\ nav_ret \in {"True", "False"}) =>
       /\ Succeeded("WareHouse") <=>
            (outcomes # <<>> /\ outcomes[Len(outcomes)][1] = "BackButton")
       /\ Succeeded("WareHouse") <=> (Attempts("BackButton") # {})
       /\ (nav_ret = "True") <=> Succeeded("ShipmentCollect")

\* go_to_shipment_collect returned True although the GoldPickup,
\* ShipmentClaim and BackButton clicks failed
C29_Witness ==
  /\ nav_from = "go_to_shipment_collect"
  /\ nav_ret = "True"
  /\ outcomes = <<<<"GoldPickup", "False">>, <<"DwelingArea", "True">>,
                  <<"WareHouse", "True">>, <<"ShipmentCollect", "True">>,
                  <<"ShipmentClaim", "False">>, <<"BackButton", "False">>>>

\* C30: whenever bot.gui_detector is set bot.device is set too, and after
\* a connect_device call that returned failure bot.device is None.
C30_DeviceState ==
  /\ gui_detector => device
  /\ (bot_pc = "idle" /\ last_call = "connect_device" /\ ~bot_ret.ok) =>
       ~device

=============================================================================
